---- MODULE Spec2Model ----
(***************************************************************************)
(* The sensitivity toolbox of idaes/apps/uncertainty_propagation/sens.py:  *)
(* SensitivityInterface.setup_sensitivity, perturb_parameters and the      *)
(* driver sensitivity_calculation, over a small Pyomo model.               *)
(*                                                                         *)
(* A model is a record (fixed flags, values, active flags, the sensitivity *)
(* block, the suffixes); every method is an operator from a model to a     *)
(* model and an error, and the actions apply these operators.              *)
(***************************************************************************)
EXTENDS Integers, Sequences, FiniteSets, TLC

VARIABLES
    model_instance, \* SensitivityInterface.model_instance, the working model
    result,         \* the last call on the interface and the error it raised
    perturbList,    \* the argument of the last perturb_parameters call that returned
    pc,             \* sensitivity_calculation: position in the function
    method,         \* sensitivity_calculation: its method argument
    paramArg,       \* sensitivity_calculation: its paramList argument
    perturbArg,     \* sensitivity_calculation: its perturbList argument
    solves,         \* sensitivity_calculation: external solvers invoked, in order
    files,          \* the working directory: its files, ./dsdp and its files
    _original_model, \* SensitivityInterface._original_model, the user's model
    cloneModel,     \* the cloneModel argument of the constructor
    stateBlock,     \* bubble_dew.py: the state block b the builders work on
    serializer      \* flowsheet_serializer.py: a FlowsheetSerializer instance

vars == <<model_instance, result, perturbList,
          pc, method, paramArg, perturbArg, solves, files,
          _original_model, cloneModel, stateBlock, serializer>>

\* The state of the modules sens.py does not touch.
others == <<stateBlock, serializer>>

(***************************************************************************)
(* Bounds.                                                                 *)
(***************************************************************************)
MaxList == 2    \* longest paramList / perturbList tried

(***************************************************************************)
(* The user's model: the components a paramList can name, the objectives   *)
(* and the constraints.  Expressions are sums of leaves; a leaf is a       *)
(* reference <<owner, local name, name tag, index>> to a component element *)
(* ("m": a component of the user's model, "b": one of the sensitivity      *)
(* block).                                                                 *)
(***************************************************************************)
_NotAnIndex == 0

Ref(owner, name, tag, idx) == <<owner, name, tag, idx>>

U(name, idx) == Ref("m", name, 0, idx)

CompNames == {"p", "q", "r", "x", "y"}

ctype(comp) == IF comp \in {"p", "q", "r"} THEN "Param" ELSE "Var"

is_indexed(comp) == comp \in {"q", "y"}

mutable(comp) == comp \in {"p", "q"}

index_set(comp) == IF is_indexed(comp) THEN {1, 2} ELSE {_NotAnIndex}

UserElems == {U(c, k) : c \in {"p", "r", "x", "z"}, k \in {_NotAnIndex}}
             \cup {U(c, k) : c \in {"q", "y"}, k \in {1, 2}}

UserVarElems == {e \in UserElems : e[2] \in {"x", "y", "z"}}

ObjOrder == <<"obj", "obj2">>

ObjExpr(o) ==
    IF o = "obj" THEN <<U("z", 0), U("p", 0), U("x", 0)>>
    ELSE <<U("z", 0), U("q", 1), U("y", 2)>>

ConOrder == <<"c_eq", "c_ub", "c_lb", "c_rng">>

\* A constraint as Pyomo holds it: equality flag, lower, body, upper.
ConData(c) ==
    CASE c = "c_eq" ->
           [equality |-> TRUE, has_lower |-> TRUE, has_upper |-> TRUE,
            lower |-> <<U("q", 1)>>, body |-> <<U("z", 0), U("p", 0)>>,
            upper |-> <<U("q", 1)>>]
      [] c = "c_ub" ->
           [equality |-> FALSE, has_lower |-> FALSE, has_upper |-> TRUE,
            lower |-> <<>>, body |-> <<U("z", 0), U("y", 1)>>,
            upper |-> <<U("p", 0)>>]
      [] c = "c_lb" ->
           [equality |-> FALSE, has_lower |-> TRUE, has_upper |-> FALSE,
            lower |-> <<U("q", 2)>>, body |-> <<U("z", 0), U("x", 0)>>,
            upper |-> <<>>]
      [] OTHER ->
           [equality |-> FALSE, has_lower |-> TRUE, has_upper |-> TRUE,
            lower |-> <<U("p", 0)>>, body |-> <<U("z", 0), U("y", 2)>>,
            upper |-> <<U("q", 2), U("r", 0)>>]

\* con.expr: the relational expression of a constraint.
ConExpr(c) ==
    LET d == ConData(c) IN
    IF d.equality THEN [rel |-> "==", args |-> <<d.body, d.upper>>]
    ELSE IF ~d.has_lower THEN [rel |-> "<=", args |-> <<d.body, d.upper>>]
    ELSE IF ~d.has_upper THEN [rel |-> "<=", args |-> <<d.lower, d.body>>]
    ELSE [rel |-> "<=", args |-> <<d.lower, d.body, d.upper>>]

(***************************************************************************)
(* Small helpers.                                                          *)
(***************************************************************************)
Put(f, k, v) == [x \in (DOMAIN f) \cup {k} |-> IF x = k THEN v ELSE f[x]]

Drop(f, ks) == [x \in (DOMAIN f) \ ks |-> f[x]]

Min(S) == CHOOSE a \in S : \A b \in S : a <= b

RECURSIVE sorted_robust(_)
sorted_robust(S) ==
    IF S = {} THEN <<>> ELSE <<Min(S)>> \o sorted_robust(S \ {Min(S)})

\* value(expr) of a sum of leaves under the values rho.
RECURSIVE Eval(_, _)
Eval(expr, rho) ==
    IF expr = <<>> THEN 0 ELSE rho[Head(expr)] + Eval(Tail(expr), rho)

\* Whether a relational expression holds under the values rho.
Sat(e, rho) ==
    LET a(i) == Eval(e.args[i], rho) IN
    CASE e.rel = "==" -> a(1) = a(2)
      [] e.rel = ">=" -> a(1) >= a(2)
      [] OTHER -> \A i \in 1..(Len(e.args) - 1) : a(i) <= a(i + 1)

(***************************************************************************)
(* The sensitivity block (Block() under the name                           *)
(* _SENSITIVITY_TOOLBOX_DATA).  flags holds the plain Python attributes    *)
(* set on the block, by attribute name; comps its components in            *)
(* declaration order, named <<local name, tag>> (tag 0: the name itself,   *)
(* tag k > 0: the name with a disambiguating suffix).                      *)
(***************************************************************************)
NoBlock ==
    [exists |-> FALSE, flags |-> <<>>, _sens_data_list |-> <<>>,
     _paramList |-> <<>>, comps |-> <<>>, objs |-> <<>>,
     has_constList |-> FALSE, constList |-> <<>>,
     has_paramConst |-> FALSE, paramConst |-> <<>>]

\* block = Block(); block._has_replaced_expressions = False; ...
NewBlock(paramList) ==
    [NoBlock EXCEPT !.exists = TRUE,
                    !.flags = [n \in {"_has_replaced_expressions"} |-> FALSE],
                    !._paramList = paramList]

hasattr(block, name) == name \in DOMAIN block.flags

\* The elements of the components a block owns.
BlockElems(m) == {e \in DOMAIN m.value : e[1] = "b"}

\* unique_component_name(block, name): the name itself when the block has
\* no component and no attribute of that name, else the name with a suffix
\* that makes it new (the library draws the suffix at random; the least
\* unused tag stands for it).
unique_component_name(block, name) ==
    LET used == {block.comps[i].name : i \in 1..Len(block.comps)} IN
    IF <<name, 0>> \notin used /\ ~hasattr(block, name) THEN <<name, 0>>
    ELSE <<name, Min({k \in 1..(Len(block.comps) + 1) : <<name, k>> \notin used})>>

\* Mutant of _generate_component_items: the index set is walked backwards.
_generate_component_items_backwards(owner, name, tag, indexed) ==
    IF indexed
    THEN LET ks == sorted_robust({1, 2}) IN
         [j \in 1..Len(ks) |->
            <<ks[Len(ks) + 1 - j], Ref(owner, name, tag, ks[Len(ks) + 1 - j])>>]
    ELSE <<<<_NotAnIndex, Ref(owner, name, tag, _NotAnIndex)>>>>

\* _generate_component_items(comp) for one component: (index, element)
\* pairs, in sorted index order for an indexed component.
_generate_component_items(owner, name, tag, indexed) ==
    IF indexed
    THEN LET ks == sorted_robust({1, 2}) IN
         [j \in 1..Len(ks) |-> <<ks[j], Ref(owner, name, tag, ks[j])>>]
    ELSE <<<<_NotAnIndex, Ref(owner, name, tag, _NotAnIndex)>>>>

(***************************************************************************)
(* setup_sensitivity, in the order of its source.  Each stage maps a model *)
(* to a model; Plan also returns the error that ended it.                  *)
(***************************************************************************)
OK == "none"

\* Mutant of InitialValues: every element gets the value of the first one.
InitialValues_first(m, comp) ==
    [k \in index_set(comp) |-> m.value[U(comp, Min(index_set(comp)))]]

\* d = {k: value(comp[k]) for k in comp.index_set()} (or value(comp)): the
\* initial values of the substitute of comp, by index.
InitialValues(m, comp) == [k \in index_set(comp) |-> m.value[U(comp, k)]]

\* block.add_component(name, Var(...)) or Param(mutable=True, ...): the new
\* component and the values of its elements.
AddSubstitute(m, name, kind, d) ==
    LET elems == {Ref("b", name[1], name[2], k) : k \in DOMAIN d} IN
    [m EXCEPT
       !.block.comps = Append(@, [name |-> name, ctype |-> kind]),
       !.value = [e \in (DOMAIN @) \cup elems |->
                    IF e \in elems THEN d[e[4]] ELSE @[e]],
       !.fixed = IF kind = "Var"
                 THEN [e \in (DOMAIN @) \cup elems |->
                         IF e \in elems THEN FALSE ELSE @[e]]
                 ELSE @]

\* The records one designated Param adds: (var[idx], param, i, idx).
ParamRecords(comp, name, i) ==
    LET items == _generate_component_items("m", comp, 0, is_indexed(comp)) IN
    [j \in 1..Len(items) |->
       [var |-> Ref("b", name[1], name[2], items[j][1]), param |-> items[j][2],
        list_idx |-> i, comp_idx |-> items[j][1]]]

\* The records one designated Var adds: (var, param[idx], i, idx).
VarRecords(comp, name, i) ==
    LET items == _generate_component_items("m", comp, 0, is_indexed(comp)) IN
    [j \in 1..Len(items) |->
       [var |-> items[j][2], param |-> Ref("b", name[1], name[2], items[j][1]),
        list_idx |-> i, comp_idx |-> items[j][1]]]

\* Mutant of EntryValid: a Var passes when one of its elements is fixed.
EntryValid_any(m, comp) ==
    IF ctype(comp) = "Param" THEN mutable(comp)
    ELSE LET items == _generate_component_items("m", comp, 0, is_indexed(comp))
         IN \E j \in 1..Len(items) : m.fixed[items[j][2]]

\* Whether the entry passes its check: a Param must be mutable, every
\* element of a Var must be fixed.
EntryValid(m, comp) ==
    IF ctype(comp) = "Param" THEN mutable(comp)
    ELSE LET items == _generate_component_items("m", comp, 0, is_indexed(comp))
         IN \A j \in 1..Len(items) : m.fixed[items[j][2]]

\* The local names of the components of the user's part of the model m.
Components(m) == {e[2] : e \in {x \in DOMAIN m.value : x[1] = "m"}}

None == "None"

\* ComponentUID(param, context=orig).find_component_on(instance): the
\* component of the same path, or None when the model has no such path.
find_component_on(m, name) == IF name \in Components(m) THEN name ELSE None

\* Lines 185-191: the references are translated when the working model is
\* not the original, and used as they are when it is.
paramList_on_instance(cloned, m, paramList) ==
    IF cloned
    THEN [i \in 1..Len(paramList) |-> find_component_on(m, paramList[i])]
    ELSE paramList

\* One pass of the loop over paramList, entry i (0-based); comp.ctype of
\* None raises AttributeError.
PlanEntry(m, comp, i) ==
    IF comp = None THEN [m |-> m, err |-> "AttributeError"]
    ELSE IF ~EntryValid(m, comp) THEN [m |-> m, err |-> "ValueError"]
    ELSE LET name == unique_component_name(m.block, comp)
             kind == IF ctype(comp) = "Param" THEN "Var" ELSE "Param"
             m1 == AddSubstitute(m, name, kind, InitialValues(m, comp))
             recs == IF ctype(comp) = "Param" THEN ParamRecords(comp, name, i)
                     ELSE VarRecords(comp, name, i)
         IN [m |-> [m1 EXCEPT !.block._sens_data_list = @ \o recs],
             err |-> OK]

RECURSIVE Plan(_, _, _)
Plan(m, paramList, i) ==
    IF i >= Len(paramList) THEN [m |-> m, err |-> OK]
    ELSE LET r == PlanEntry(m, paramList[i + 1], i) IN
         IF r.err # OK THEN r ELSE Plan(r.m, paramList, i + 1)

\* Mutant of UnfixAll: only the variables the block created are unfixed.
UnfixAll_created(m) ==
    LET l == m.block._sens_data_list
        vs == {l[k].var : k \in 1..Len(l)} \cap BlockElems(m)
    IN [m EXCEPT !.fixed = [e \in DOMAIN @ |-> IF e \in vs THEN FALSE ELSE @[e]]]

\* for var, _, _, _ in sens_data_list: var.unfix()
UnfixAll(m) ==
    LET l == m.block._sens_data_list
        vs == {l[k].var : k \in 1..Len(l)}
    IN [m EXCEPT !.fixed = [e \in DOMAIN @ |-> IF e \in vs THEN FALSE ELSE @[e]]]

\* for var, _, _, _ in existing_block._sens_data_list: var.fix()
RefixAll(m) ==
    LET l == m.block._sens_data_list
        vs == {l[k].var : k \in 1..Len(l)}
    IN [m EXCEPT !.fixed = [e \in DOMAIN @ |-> IF e \in vs THEN TRUE ELSE @[e]]]

\* instance.del_component(existing_block): the block and its components go.
DelBlock(m) ==
    [m EXCEPT !.block = NoBlock,
              !.value = Drop(@, BlockElems(m)),
              !.fixed = Drop(@, BlockElems(m))]

\* Mutant of variableSubMap: the records of designated Vars are not left out.
variableSubMap_unfiltered(m) ==
    LET l == m.block._sens_data_list
        last(e) == CHOOSE k \in 1..Len(l) : l[k].param = e
                        /\ \A k2 \in 1..Len(l) : l[k2].param = e => k2 <= k
    IN [e \in {l[k].param : k \in 1..Len(l)} |-> l[last(e)].var]

\* Mutant of variableSubMap: only the unindexed Params get an entry.
variableSubMap_scalars(m) ==
    LET l == m.block._sens_data_list
        ks == {k \in 1..Len(l) :
                 /\ ctype(m.block._paramList[l[k].list_idx + 1]) = "Param"
                 /\ l[k].comp_idx = _NotAnIndex}
        last(e) == CHOOSE k \in ks : l[k].param = e
                        /\ \A k2 \in ks : l[k2].param = e => k2 <= k
    IN [e \in {l[k].param : k \in ks} |-> l[last(e)].var]

\* variableSubMap: designated Param element -> its variable, over the
\* records whose list entry is a Param (a dict: the last record wins).
variableSubMap(m) ==
    LET l == m.block._sens_data_list
        ks == {k \in 1..Len(l) : ctype(m.block._paramList[l[k].list_idx + 1]) = "Param"}
        last(e) == CHOOSE k \in ks : l[k].param = e
                        /\ \A k2 \in ks : l[k2].param = e => k2 <= k
    IN [e \in {l[k].param : k \in ks} |-> l[last(e)].var]

\* param_replacer.dfs_postorder_stack(expr) on a sum of leaves.
dfs_postorder_stack(sub, expr) ==
    [j \in 1..Len(expr) |-> IF expr[j] \in DOMAIN sub THEN sub[expr[j]] ELSE expr[j]]

\* list(instance.component_data_objects(Objective, active=True, ...)) and
\* the same for Constraint: the active ones, in declaration order, as they
\* are when the list is taken.
ActiveObjectives(m) ==
    LET Test(o) == m.objActive[o] IN SelectSeq(ObjOrder, Test)

ActiveConstraints(m) ==
    LET Test(c) == m.conActive[c] IN SelectSeq(ConOrder, Test)

\* The loop over the active objectives: a new Objective of the rewritten
\* expression under a unique name, the original deactivated.
RECURSIVE RewriteObjectives(_, _, _)
RewriteObjectives(m, sub, objs) ==
    IF objs = <<>> THEN m
    ELSE LET obj == Head(objs)
             tempName == unique_component_name(m.block, obj)
             new_expr == dfs_postorder_stack(sub, ObjExpr(obj))
             m1 == [m EXCEPT
                      !.block.comps = Append(@, [name |-> tempName,
                                                 ctype |-> "Objective"]),
                      !.block.objs = Append(@, [name |-> tempName,
                                                expr |-> new_expr]),
                      !.objActive[obj] = FALSE]
         IN RewriteObjectives(m1, sub, Tail(objs))

\* Mutant of ShadowEntries: a constraint is one-sided only when both of its
\* bounds are absent, so a one-sided inequality is split like a ranged one.
ShadowEntries_and(sub, con) ==
    LET d == ConData(con)
        e == ConExpr(con)
        new_expr == [rel |-> e.rel,
                     args |-> [a \in 1..Len(e.args) |->
                                 dfs_postorder_stack(sub, e.args[a])]]
        new_body == dfs_postorder_stack(sub, d.body)
        new_lower == dfs_postorder_stack(sub, d.lower)
        new_upper == dfs_postorder_stack(sub, d.upper)
    IN IF d.equality THEN <<new_expr>>
       ELSE IF ~d.has_lower /\ ~d.has_upper THEN <<new_expr>>
       ELSE <<[rel |-> "<=", args |-> <<new_lower, new_upper>>],
              [rel |-> ">=", args |-> <<new_upper, new_body>>]>>

\* What one active constraint adds to block.constList.
ShadowEntries(sub, con) ==
    LET d == ConData(con)
        e == ConExpr(con)
        new_expr == [rel |-> e.rel,
                     args |-> [a \in 1..Len(e.args) |->
                                 dfs_postorder_stack(sub, e.args[a])]]
        new_body == dfs_postorder_stack(sub, d.body)
        new_lower == dfs_postorder_stack(sub, d.lower)
        new_upper == dfs_postorder_stack(sub, d.upper)
    IN IF d.equality THEN <<new_expr>>
       ELSE IF ~d.has_lower \/ ~d.has_upper THEN <<new_expr>>
       ELSE <<[rel |-> "<=", args |-> <<new_lower, new_upper>>],
              [rel |-> ">=", args |-> <<new_upper, new_body>>]>>

\* Mutant of RewriteConstraints: a constraint that names no substituted
\* parameter is left alone, neither cloned nor deactivated.
RECURSIVE RewriteConstraints_touched(_, _, _)
RewriteConstraints_touched(m, sub, cons) ==
    IF cons = <<>> THEN m
    ELSE LET con == Head(cons)
             e == ConExpr(con)
             leaves == UNION {{e.args[a][i] : i \in 1..Len(e.args[a])} :
                                a \in 1..Len(e.args)}
             m1 == IF leaves \cap DOMAIN sub = {} THEN m
                   ELSE [m EXCEPT
                           !.block.constList = @ \o ShadowEntries(sub, con),
                           !.conActive[con] = FALSE]
         IN RewriteConstraints_touched(m1, sub, Tail(cons))

\* The loop over the active constraints.
RECURSIVE RewriteConstraints(_, _, _)
RewriteConstraints(m, sub, cons) ==
    IF cons = <<>> THEN m
    ELSE LET con == Head(cons)
             m1 == [m EXCEPT
                      !.block.constList = @ \o ShadowEntries(sub, con),
                      !.conActive[con] = FALSE]
         IN RewriteConstraints(m1, sub, Tail(cons))

\* block.<name> = ConstraintList(): a plain attribute assignment.  When the
\* block has a component of that name already, the assignment removes it
\* from the block and declares the new one in its place (the removed
\* object lives on wherever it is still referred to).
setattr_component(block, name, kind) ==
    LET Other(c) == c.name # <<name, 0>> IN
    [block EXCEPT !.comps = Append(SelectSeq(@, Other),
                                   [name |-> <<name, 0>>, ctype |-> kind])]

\* The body of "if variableSubMap:".
Rewrite(m, sub) ==
    LET objs == ActiveObjectives(m)
        m1 == RewriteObjectives(m, sub, objs)
        m2 == [m1 EXCEPT
                 !.block = [setattr_component(@, "constList", "ConstraintList")
                              EXCEPT !.has_constList = TRUE]]
        cons == ActiveConstraints(m2)
        m3 == RewriteConstraints(m2, sub, cons)
    IN [m3 EXCEPT !.block.flags =
                     Put(@, "_has_replaced_expressions", TRUE)]

\* Mutant of Pin: the constraints are added in the reverse of record order.
Pin_reversed(m) ==
    LET l == m.block._sens_data_list IN
    [m EXCEPT
       !.block.comps =
          setattr_component(m.block, "paramConst", "ConstraintList").comps,
       !.block.has_paramConst = TRUE,
       !.block.paramConst =
          [k \in 1..Len(l) |->
             [rel |-> "==", args |-> <<<<l[Len(l) + 1 - k].var>>,
                                       <<l[Len(l) + 1 - k].param>>>>]]]

\* block.paramConst: one "var - param == 0" per record, in record order.
Pin(m) ==
    LET l == m.block._sens_data_list IN
    [m EXCEPT
       !.block.comps =
          setattr_component(m.block, "paramConst", "ConstraintList").comps,
       !.block.has_paramConst = TRUE,
       !.block.paramConst =
          [k \in 1..Len(l) |->
             [rel |-> "==", args |-> <<<<l[k].var>>, <<l[k].param>>>>]]]

\* _SIPOPT_SUFFIXES and _K_AUG_SUFFIXES with their directions.
suffix_dict ==
    [n \in {"sens_state_0", "sens_state_1", "sens_state_value_1",
            "sens_init_constr", "ipopt_zL_in", "ipopt_zU_in", "dcdp",
            "DeltaP"} |-> "EXPORT"]
    @@ [n \in {"sens_sol_state_1", "sens_sol_state_1_z_L",
               "sens_sol_state_1_z_U", "ipopt_zL_out", "ipopt_zU_out"}
          |-> "IMPORT"]
    @@ [n \in {"dual"} |-> "IMPORT_EXPORT"]

\* Mutant of _add_sensitivity_suffixes: every name of the catalogue is
\* declared anew, whether or not the model has a component of that name.
_add_sensitivity_suffixes_anew(m) ==
    [m EXCEPT !.suffix =
       [n \in (DOMAIN @) \cup (DOMAIN suffix_dict) |->
          IF n \in DOMAIN suffix_dict
          THEN [direction |-> suffix_dict[n], data |-> <<>>]
          ELSE @[n]]]

\* A name is added only when the model has no component of that name.
_add_sensitivity_suffixes(m) ==
    [m EXCEPT !.suffix =
       [n \in (DOMAIN @) \cup (DOMAIN suffix_dict) |->
          IF n \in DOMAIN @ THEN @[n]
          ELSE [direction |-> suffix_dict[n], data |-> <<>>]]]

\* suffix[key] = val for the keys of new, in order (a later write wins).
Merge(old, new) ==
    [x \in (DOMAIN old) \cup (DOMAIN new) |->
       IF x \in DOMAIN new THEN new[x] ELSE old[x]]

ParamConstRef(k) == Ref("b", "paramConst", 0, k)

\* Mutant of Stamp: the index written is the 0-based position of the record.
Stamp_zero_based(m) ==
    LET l == m.block._sens_data_list
        lastOf(e) == CHOOSE k \in 1..Len(l) :
                        l[k].var = e /\ \A k2 \in 1..Len(l) : l[k2].var = e => k2 <= k
        byVar == [e \in {l[k].var : k \in 1..Len(l)} |-> lastOf(e) - 1]
        byCon == [c \in {ParamConstRef(k) : k \in 1..Len(l)} |-> c[4] - 1]
    IN [m EXCEPT
          !.suffix["sens_state_0"].data = Merge(@, byVar),
          !.suffix["sens_state_1"].data = Merge(@, byVar),
          !.suffix["sens_init_constr"].data = Merge(@, byCon),
          !.suffix["dcdp"].data = Merge(@, byCon)]

\* The last loop of setup_sensitivity: the 1-based index of each record on
\* its variable and on its pinning constraint.
Stamp(m) ==
    LET l == m.block._sens_data_list
        lastOf(e) == CHOOSE k \in 1..Len(l) :
                        l[k].var = e /\ \A k2 \in 1..Len(l) : l[k2].var = e => k2 <= k
        byVar == [e \in {l[k].var : k \in 1..Len(l)} |-> lastOf(e)]
        byCon == [c \in {ParamConstRef(k) : k \in 1..Len(l)} |-> c[4]]
    IN [m EXCEPT
          !.suffix["sens_state_0"].data = Merge(@, byVar),
          !.suffix["sens_state_1"].data = Merge(@, byVar),
          !.suffix["sens_init_constr"].data = Merge(@, byCon),
          !.suffix["dcdp"].data = Merge(@, byCon)]

\* Mutant of CanRebuild: an existing block is always torn down.
CanRebuild_always(block) == TRUE

\* The test of lines 198-199 on an existing block.
CanRebuild(block) ==
    hasattr(block, "has_replaced_expressions")
    /\ ~block.flags["has_replaced_expressions"]

setup_sensitivity(m, paramList) ==
    IF m.block.exists /\ ~CanRebuild(m.block)
    THEN [m |-> m, err |-> "RuntimeError"]
    ELSE LET m0 == IF m.block.exists THEN DelBlock(RefixAll(m)) ELSE m
             m1 == [m0 EXCEPT !.block = NewBlock(paramList)]
             r == Plan(m1, paramList, 0)
         IN IF r.err # OK THEN r
            ELSE LET m2 == UnfixAll(r.m)
                     sub == variableSubMap(m2)
                     m3 == IF DOMAIN sub # {} THEN Rewrite(m2, sub) ELSE m2
                     m4 == Stamp(_add_sensitivity_suffixes(Pin(m3)))
                 IN [m |-> m4, err |-> OK]

(***************************************************************************)
(* perturb_parameters.  An entry of perturbList is a number (indexable     *)
(* FALSE, its value v) or a mapping over the index set (indexable TRUE,    *)
(* its values d).                                                          *)
(***************************************************************************)
Scalar(v) == [indexable |-> FALSE, v |-> v, d |-> <<v, v>>]

Indexed(d) == [indexable |-> TRUE, v |-> 0, d |-> d]

\* ptb for one record: [ptb, err].  value() of a mapping raises TypeError;
\* indexing a number raises TypeError, which is caught and the number used.
Target(plist, rec) ==
    LET entry == plist[rec.list_idx + 1] IN
    IF rec.comp_idx = _NotAnIndex
    THEN IF entry.indexable THEN [ptb |-> 0, err |-> "TypeError"]
         ELSE [ptb |-> entry.v, err |-> OK]
    ELSE IF entry.indexable THEN [ptb |-> entry.d[rec.comp_idx], err |-> OK]
         ELSE [ptb |-> entry.v, err |-> OK]

\* Mutant of PerturbLoop: an entry a slot already holds is kept.
RECURSIVE PerturbLoop_keep(_, _, _)
PerturbLoop_keep(m, plist, i) ==
    IF i >= Len(m.block._sens_data_list) THEN [m |-> m, err |-> OK]
    ELSE LET rec == m.block._sens_data_list[i + 1]
             con == <<"b", "paramConst", 0, i + 1>>
             t == Target(plist, rec)
             sv == m.suffix["sens_state_value_1"].data
             dp == m.suffix["DeltaP"].data
         IN IF t.err # OK THEN [m |-> m, err |-> t.err]
            ELSE PerturbLoop_keep(
                   [m EXCEPT
                      !.suffix["sens_state_value_1"].data =
                         IF rec.var \in DOMAIN sv THEN sv ELSE Put(sv, rec.var, t.ptb),
                      !.suffix["DeltaP"].data =
                         IF con \in DOMAIN dp THEN dp
                         ELSE Put(dp, con, m.value[rec.var] - t.ptb)],
                   plist, i + 1)

\* Mutant of PerturbRecord: DeltaP with the other sign (ptb - var).
PerturbRecord_sign(m, i, ptb) ==
    LET rec == m.block._sens_data_list[i + 1]
        con == ParamConstRef(i + 1)
    IN [m EXCEPT
          !.suffix["sens_state_value_1"].data = Put(@, rec.var, ptb),
          !.suffix["DeltaP"].data = Put(@, con, ptb - m.value[rec.var])]

\* The two writes of one pass of the loop, record i (0-based).
PerturbRecord(m, i, ptb) ==
    LET rec == m.block._sens_data_list[i + 1]
        con == ParamConstRef(i + 1)
    IN [m EXCEPT
          !.suffix["sens_state_value_1"].data = Put(@, rec.var, ptb),
          !.suffix["DeltaP"].data = Put(@, con, m.value[rec.var] - ptb)]

RECURSIVE PerturbLoop(_, _, _)
PerturbLoop(m, plist, i) ==
    IF i >= Len(m.block._sens_data_list) THEN [m |-> m, err |-> OK]
    ELSE LET t == Target(plist, m.block._sens_data_list[i + 1]) IN
         IF t.err # OK THEN [m |-> m, err |-> t.err]
         ELSE PerturbLoop(PerturbRecord(m, i, t.ptb), plist, i + 1)

\* Mutant of perturb_parameters: the length of perturbList is compared
\* with the number of records instead of the length of paramList.
perturb_parameters_records(m, plist) ==
    IF ~m.block.exists \/ ~m.block.has_paramConst
    THEN [m |-> m, err |-> "AttributeError"]
    ELSE IF Len(m.block._sens_data_list) # Len(plist)
    THEN [m |-> m, err |-> "ValueError"]
    ELSE PerturbLoop(m, plist, 0)

\* self.block is the block of the interface's last setup call that got as
\* far as creating one; it has paramConst only when that call completed.
perturb_parameters(m, plist) ==
    IF ~m.block.exists \/ ~m.block.has_paramConst
    THEN [m |-> m, err |-> "AttributeError"]
    ELSE IF Len(m.block._paramList) # Len(plist)
    THEN [m |-> m, err |-> "ValueError"]
    ELSE PerturbLoop(m, plist, 0)

(***************************************************************************)
(* Inputs.                                                                 *)
(***************************************************************************)
RECURSIVE ListsOver(_, _)
ListsOver(S, n) ==
    IF n = 0 THEN {<<>>}
    ELSE LET shorter == ListsOver(S, n - 1) IN
         shorter \cup {Append(l, x) : l \in {t \in shorter : Len(t) = n - 1}, x \in S}

ParamLists == ListsOver(CompNames, MaxList)

PerturbEntries == {Scalar(7), Indexed(<<9, 10>>)}

PerturbLists == ListsOver(PerturbEntries, MaxList)

\* The values of the user's model: every element has its own.
Values0 ==
    [e \in UserElems |->
       CASE e = U("p", 0) -> 5 [] e = U("q", 1) -> 1 [] e = U("q", 2) -> 2
         [] e = U("r", 0) -> 3 [] e = U("x", 0) -> 4 [] e = U("y", 1) -> 6
         [] e = U("y", 2) -> 11 [] OTHER -> 0]

\* The user's models: z is a free variable, x and the elements of y are
\* fixed or not, objectives and constraints are active or not; no
\* sensitivity block and no suffix yet.
Models ==
    {[fixed |-> f, value |-> Values0, objActive |-> oa, conActive |-> ca,
      block |-> NoBlock, suffix |-> <<>>] :
        f \in {g \in [UserVarElems -> BOOLEAN] : ~g[U("z", 0)]},
        oa \in {g \in [{"obj", "obj2"} -> BOOLEAN] : g["obj"]},
        ca \in {g \in [{"c_eq", "c_ub", "c_lb", "c_rng"} -> BOOLEAN] :
                  g["c_eq"] /\ g["c_ub"]}}

NoCall == [op |-> "none", err |-> OK]

(***************************************************************************)
(* phase_equil/bubble_dew.py.  The state block b: the attributes it can    *)
(* give (attrs; '_pe_pairs' stands for b.params._pe_pairs), its phase      *)
(* pairs and components, and the constraints declared on it, in order.     *)
(* The outcome of a rule is 'Skip', 'expr' or the exception it raises.     *)
(***************************************************************************)
is_liquid_phase(p) == p = "Liq"

is_vapor_phase(p) == p = "Vap"

_vle_check(p1, p2) ==
    IF ~(is_liquid_phase(p1) \/ is_liquid_phase(p2)) THEN FALSE
    ELSE IF ~(is_vapor_phase(p1) \/ is_vapor_phase(p2)) THEN FALSE
    ELSE TRUE

\* l_phase and v_phase are bound only in the branch that finds them, and
\* the return statement reads both.
_identify_phases(p1, p2) ==
    LET l_phase == IF is_liquid_phase(p1) THEN p1
                   ELSE IF is_liquid_phase(p2) THEN p2 ELSE "unbound"
        v_phase == IF is_vapor_phase(p1) THEN p1
                   ELSE IF is_vapor_phase(p2) THEN p2 ELSE "unbound"
    IN [l_phase |-> l_phase, v_phase |-> v_phase,
        err |-> IF "unbound" \in {l_phase, v_phase}
                THEN "UnboundLocalError" ELSE OK]

_valid_VL_component_list(blk, pp) ==
    LET l_phase == IF is_liquid_phase(pp[2]) THEN pp[2]
                   ELSE IF is_liquid_phase(pp[1]) THEN pp[1] ELSE None
        v_phase == IF ~is_liquid_phase(pp[2]) /\ is_vapor_phase(pp[2]) THEN pp[2]
                   ELSE IF ~is_liquid_phase(pp[1]) /\ is_vapor_phase(pp[1])
                        THEN pp[1] ELSE None
        VL == l_phase # None /\ v_phase # None
        InL(j) == <<l_phase, j>> \in blk._phase_component_set
        InV(j) == <<v_phase, j>> \in blk._phase_component_set
        Both(j) == VL /\ InL(j) /\ InV(j)
        OnlyL(j) == VL /\ InL(j) /\ ~InV(j)
        OnlyV(j) == VL /\ ~InL(j) /\ InV(j)
    IN [l_phase |-> l_phase, v_phase |-> v_phase,
        vl_comps |-> SelectSeq(blk.component_list, Both),
        l_only_comps |-> SelectSeq(blk.component_list, OnlyL),
        v_only_comps |-> SelectSeq(blk.component_list, OnlyV)]

\* Building an expression reads attributes of b; one that b cannot give
\* raises AttributeError.
Expression(b, names) == IF names \subseteq b.attrs THEN "expr" ELSE "AttributeError"

BubbleDewClasses == {"IdealBubbleDew", "LogBubbleDew"}

BubbleDewMethods ==
    {"temperature_bubble", "temperature_dew", "pressure_bubble", "pressure_dew"}

\* The names of the two constraints each builder declares.
FirstConstraint ==
    [op \in BubbleDewMethods |->
       CASE op = "temperature_bubble" -> "eq_temperature_bubble"
         [] op = "temperature_dew" -> "eq_temperature_dew"
         [] op = "pressure_bubble" -> "eq_pressure_bubble"
         [] op = "pressure_dew" -> "eq_pressure_dew"]

SecondConstraint ==
    [op \in BubbleDewMethods |->
       CASE op = "temperature_bubble" -> "eq_mole_frac_tbub"
         [] op = "temperature_dew" -> "eq_mole_frac_tdew"
         [] op = "pressure_bubble" -> "eq_mole_frac_pbub"
         [] op = "pressure_dew" -> "eq_mole_frac_pdew"]

\* The rule of the first constraint, on the pair (p1, p2).
FirstRule(cls, op, b, p1, p2) ==
    LET v == _valid_VL_component_list(b, <<p1, p2>>)
        ph == _identify_phases(p1, p2)
        sum_vl == IF v.vl_comps # <<>> THEN {"mole_frac_comp", op} ELSE {}
        sum_all == IF b.component_list # <<>>
                   THEN {"mole_frac_comp", "temperature"} ELSE {}
    IN IF cls = "IdealBubbleDew"
       THEN CASE op = "temperature_bubble" ->
                   IF v.l_phase = None \/ v.v_phase = None THEN "Skip"
                   ELSE IF v.v_only_comps # <<>> THEN "Skip"
                   ELSE Expression(b, sum_vl \cup {"pressure"})
              [] op = "temperature_dew" ->
                   IF v.l_phase = None \/ v.v_phase = None THEN "Skip"
                   ELSE IF v.l_only_comps # <<>> THEN "Skip"
                   ELSE Expression(b, sum_vl \cup {"pressure"})
              [] OTHER ->
                   IF ~_vle_check(p1, p2) THEN "Skip"
                   ELSE Expression(b, sum_all \cup {op})
       ELSE IF ph.err # OK THEN ph.err
            ELSE Expression(b,
                   CASE op = "temperature_bubble" -> {"mole_frac_comp", "_mole_frac_tbub"}
                     [] op = "temperature_dew" -> {"mole_frac_comp", "_mole_frac_tdew"}
                     [] op = "pressure_bubble" -> {"mole_frac_comp", "_mole_frac_pbub"}
                     [] op = "pressure_dew" -> {"mole_frac_comp", "_mole_frac_p_dew"})

\* The rule of the second (mole-fraction) constraint.
SecondRule(cls, op, b, p1, p2) ==
    LET v == _valid_VL_component_list(b, <<p1, p2>>)
        ph == _identify_phases(p1, p2)
        frac == CASE op = "temperature_bubble" -> "_mole_frac_tbub"
                  [] op = "temperature_dew" -> "_mole_frac_tdew"
                  [] op = "pressure_bubble" -> "_mole_frac_pbub"
                  [] op = "pressure_dew" -> "_mole_frac_pdew"
        sum_frac == IF b.component_list # <<>> THEN {frac} ELSE {}
    IN IF cls = "IdealBubbleDew"
       THEN CASE op = "temperature_bubble" ->
                   IF v.l_phase = None \/ v.v_phase = None THEN "Skip"
                   ELSE IF v.v_only_comps # <<>> THEN "Skip"
                   ELSE Expression(b, {frac, "pressure", "mole_frac_comp", op})
              [] op = "temperature_dew" ->
                   IF v.l_phase = None \/ v.v_phase = None THEN "Skip"
                   ELSE IF v.l_only_comps # <<>> THEN "Skip"
                   ELSE Expression(b, {frac, "pressure", "mole_frac_comp", op})
              [] OTHER ->
                   IF ~_vle_check(p1, p2) THEN "Skip"
                   ELSE Expression(b, {frac, op, "mole_frac_comp", "temperature"})
       ELSE IF op = "temperature_bubble"
            THEN IF ~_vle_check(p1, p2) THEN "Skip" ELSE Expression(b, sum_frac)
            ELSE IF ph.err # OK THEN ph.err ELSE Expression(b, sum_frac)

\* Constraint(b.params._pe_pairs, ..., rule=rule) under construction: the
\* rule is run index by index, and the first exception ends it (the
\* component lists tried are not empty, so every pair is an index).
RECURSIVE Construct(_, _, _, _, _)
Construct(cls, op, b, first, pairs) ==
    IF pairs = <<>> THEN OK
    ELSE LET r == IF first THEN FirstRule(cls, op, b, Head(pairs)[1], Head(pairs)[2])
                  ELSE SecondRule(cls, op, b, Head(pairs)[1], Head(pairs)[2])
         IN IF r \notin {"Skip", "expr"} THEN r
            ELSE Construct(cls, op, b, first, Tail(pairs))

\* b.<name> = Constraint(...): the component is declared on the block, then
\* constructed.
Declare(b, name) == [b EXCEPT !.comps = Append(@, name)]

del_component(b, name) ==
    LET Other(c) == c # name IN [b EXCEPT !.comps = SelectSeq(@, Other)]

\* Mutant of Build: the handler re-raises without removing the constraint.
Build_keep(cls, op, b) ==
    IF "_pe_pairs" \notin b.attrs THEN [b |-> b, err |-> "AttributeError"]
    ELSE LET b1 == Declare(b, FirstConstraint[op])
             e1 == Construct(cls, op, b1, TRUE, b1.pairs)
         IN IF e1 # OK THEN [b |-> b1, err |-> e1]
            ELSE LET b2 == Declare(b1, SecondConstraint[op])
                 IN [b |-> b2, err |-> Construct(cls, op, b2, FALSE, b2.pairs)]

\* One builder, cls.op(b).  Reading b.params._pe_pairs comes before the
\* constraint exists: the handler's own b.eq_... then raises AttributeError.
Build(cls, op, b) ==
    IF "_pe_pairs" \notin b.attrs THEN [b |-> b, err |-> "AttributeError"]
    ELSE LET b1 == Declare(b, FirstConstraint[op])
             e1 == Construct(cls, op, b1, TRUE, b1.pairs)
         IN IF e1 = "AttributeError"
            THEN [b |-> del_component(b1, FirstConstraint[op]), err |-> e1]
            ELSE IF e1 # OK THEN [b |-> b1, err |-> e1]
            ELSE LET b2 == Declare(b1, SecondConstraint[op])
                 IN [b |-> b2, err |-> Construct(cls, op, b2, FALSE, b2.pairs)]

\* What a state block can give besides its constraints.
BlockAttrs ==
    {"_pe_pairs", "pressure", "temperature", "mole_frac_comp",
     "temperature_bubble", "temperature_dew", "pressure_bubble", "pressure_dew",
     "_mole_frac_tbub", "_mole_frac_tdew", "_mole_frac_pbub", "_mole_frac_pdew"}

PePairs ==
    {<<>>, <<<<"Liq", "Vap">>>>, <<<<"Vap", "Liq">>>>, <<<<"Sol", "Liq">>>>,
     <<<<"Liq", "Vap">>, <<"Sol", "Liq">>>>, <<<<"Sol", "Liq">>, <<"Liq", "Vap">>>>}

\* h2o is in both fluid phases, n2 only in the vapour, salt only in the
\* liquid and the solid.
ComponentLists == {<<"h2o">>, <<"h2o", "n2">>, <<"h2o", "salt">>}

PhaseComponents(cl) ==
    {e \in {"Liq", "Vap", "Sol"} \X {cl[i] : i \in 1..Len(cl)} :
        \/ e[2] = "h2o" /\ e[1] \in {"Liq", "Vap"}
        \/ e[2] = "n2" /\ e[1] = "Vap"
        \/ e[2] = "salt" /\ e[1] \in {"Liq", "Sol"}}

\* The state blocks tried: complete, or with one attribute missing.
StateBlocks ==
    {[attrs |-> BlockAttrs \ miss, pairs |-> ps, component_list |-> cl,
      _phase_component_set |-> PhaseComponents(cl), comps |-> <<>>] :
        miss \in {{}} \cup {{a} : a \in BlockAttrs},
        ps \in PePairs, cl \in ComponentLists}

NoStateBlock ==
    [attrs |-> {}, pairs |-> <<>>, component_list |-> <<>>,
     _phase_component_set |-> {}, comps |-> <<>>]

(***************************************************************************)
(* ui/flowsheet_serializer.py.  A dict is the sequence of its (key, value) *)
(* pairs in insertion order; assigning to a key it has replaces the value  *)
(* in place.  A unit model, a port or an arc of a flowsheet is an object:  *)
(* it is named by its flowsheet together with its own name.                *)
(***************************************************************************)
Keys(d) == {d[i][1] : i \in 1..Len(d)}

DictGet(d, k) == d[CHOOSE i \in 1..Len(d) : d[i][1] = k][2]

DictSet(d, k, v) ==
    IF k \in Keys(d)
    THEN [i \in 1..Len(d) |-> IF d[i][1] = k THEN <<k, v>> ELSE d[i]]
    ELSE Append(d, <<k, v>>)

RECURSIVE DictUpdate(_, _)
DictUpdate(d, items) ==
    IF items = <<>> THEN d
    ELSE DictUpdate(DictSet(d, Head(items)[1], Head(items)[2]), Tail(items))

\* The dict as a mapping, order forgotten (how two dicts compare).
AsMapping(d) == [k \in Keys(d) |-> DictGet(d, k)]

\* The flowsheets serialized: unit models (each with the ports 'inlet' and
\* 'outlet') and arcs, in declaration order.
Flowsheets ==
    {[id |-> 1,
      units |-> <<[name |-> "M101", type |-> "mixer"],
                  [name |-> "H101", type |-> "heater"]>>,
      arcs |-> <<[name |-> "s01", source |-> <<"M101", "outlet">>,
                  dest |-> <<"H101", "inlet">>, label |-> "flow 1"]>>],
     [id |-> 2,
      units |-> <<[name |-> "H101", type |-> "heater"],
                  [name |-> "F101", type |-> "flash"]>>,
      arcs |-> <<[name |-> "s01", source |-> <<"H101", "outlet">>,
                  dest |-> <<"F101", "inlet">>, label |-> "flow 2"]>>],
     [id |-> 3,
      units |-> <<[name |-> "F101", type |-> "flash"]>>,
      arcs |-> <<>>],
     [id |-> 4,
      units |-> <<[name |-> "M101", type |-> "mixer"],
                  [name |-> "F101", type |-> "flash"]>>,
      arcs |-> <<[name |-> "s02", source |-> <<"M101", "outlet">>,
                  dest |-> <<"F101", "inlet">>, label |-> "flow 4"]>>]}

FlowsheetNames == {"fs", "plant"}

\* FlowsheetSerializer.__init__
FlowsheetSerializer ==
    [unit_models |-> <<>>, arcs |-> <<>>, ports |-> <<>>, edges |-> <<>>,
     orphaned_ports |-> <<>>, labels |-> <<>>, out_json |-> [model |-> <<>>],
     name |-> ""]

icon_mapping(type) == <<type, "svg">>

serialize_flowsheet(self, flowsheet) ==
    LET fs == flowsheet.id
        n == Len(flowsheet.units)
        units == [i \in 1..n |->
                    <<<<fs, flowsheet.units[i].name>>,
                      [name |-> flowsheet.units[i].name,
                       type |-> flowsheet.units[i].type]>>]
        ports == [i \in 1..(2 * n) |->
                    LET u == flowsheet.units[(i + 1) \div 2].name IN
                    <<<<fs, u, IF i % 2 = 1 THEN "inlet" ELSE "outlet">>,
                      <<fs, u>>>>]
        arcs == [i \in 1..Len(flowsheet.arcs) |->
                   LET a == flowsheet.arcs[i] IN
                   <<a.name,
                     [source |-> <<fs, a.source[1], a.source[2]>>,
                      dest |-> <<fs, a.dest[1], a.dest[2]>>,
                      label |-> a.label]>>]
        s1 == [self EXCEPT !.unit_models = DictUpdate(@, units),
                           !.ports = DictUpdate(@, ports),
                           !.arcs = DictUpdate(@, arcs)]
        labels == [i \in 1..Len(s1.arcs) |-> <<s1.arcs[i][1], s1.arcs[i][2].label>>]
        edges == [i \in 1..Len(s1.arcs) |->
                    <<s1.arcs[i][1],
                      [source |-> DictGet(s1.ports, s1.arcs[i][2].source),
                       dest |-> DictGet(s1.ports, s1.arcs[i][2].dest)]>>]
    IN [s1 EXCEPT !.labels = DictUpdate(@, labels),
                  !.edges = DictUpdate(<<>>, edges)]

_construct_model_json(self) ==
    LET um == [i \in 1..Len(self.unit_models) |->
                 <<self.unit_models[i][2].name,
                   [type |-> self.unit_models[i][2].type,
                    image |-> icon_mapping(self.unit_models[i][2].type)]>>]
        arcs == [i \in 1..Len(self.edges) |->
                   <<self.edges[i][1],
                     [source |-> self.edges[i][2].source[2],
                      dest |-> self.edges[i][2].dest[2],
                      label |-> DictGet(self.labels, self.edges[i][1])]>>]
    IN [self EXCEPT !.out_json =
          [model |-> [id |-> self.name,
                      unit_models |-> AsMapping(DictUpdate(<<>>, um)),
                      arcs |-> AsMapping(DictUpdate(<<>>, arcs))]]]

_construct_jointjs_json(self) ==
    LET images == [i \in 1..Len(self.unit_models) |->
                     [type |-> "standard.Image",
                      position |-> [x |-> 100 * i, y |-> 100 * i],
                      id |-> self.unit_models[i][2].name,
                      image |-> icon_mapping(self.unit_models[i][2].type),
                      title |-> self.unit_models[i][2].type]]
        links == [i \in 1..Len(self.edges) |->
                    [type |-> "standard.Link",
                     source |-> [id |-> self.edges[i][2].source[2], port |-> "in"],
                     target |-> [id |-> self.edges[i][2].dest[2], port |-> "out"],
                     id |-> self.edges[i][1],
                     label |-> DictGet(self.labels, self.edges[i][1])]]
    IN [self EXCEPT !.out_json =
          [model |-> @.model, cells |-> images \o links]]

_construct_output_json(self) == _construct_jointjs_json(_construct_model_json(self))

\* serialize(flowsheet, name): the serializer afterwards; the dict returned
\* is its out_json.
serialize(self, flowsheet, name) ==
    _construct_output_json(serialize_flowsheet([self EXCEPT !.name = name], flowsheet))

\* Mutant of KeepOriginal: the working model is the user's model whatever
\* cloneModel says.
KeepOriginal_shared ==
    /\ cloneModel' = cloneModel
    /\ _original_model' = model_instance'

\* self._original_model = instance; self.model_instance = instance.clone()
\* or instance: when the model was not cloned the two are one object, and
\* what a step does to the working model it does to the user's model.
KeepOriginal ==
    /\ cloneModel' = cloneModel
    /\ _original_model' = IF cloneModel THEN _original_model ELSE model_instance'

\* No state block under construction, and a serializer not yet used.
InitOthers ==
    /\ stateBlock = NoStateBlock
    /\ serializer = FlowsheetSerializer

\* No call made yet, and no run of sensitivity_calculation under way.
InitNoCall ==
    /\ result = NoCall
    /\ perturbList = <<>>
    /\ pc = "idle"
    /\ method = "none"
    /\ paramArg = <<>>
    /\ perturbArg = <<>>
    /\ solves = <<>>
    /\ files = [cwd |-> {}, dir |-> FALSE, dsdp |-> {}]

\* SensitivityInterface(instance): cloneModel defaults to True.
InitIdle ==
    /\ cloneModel = TRUE
    /\ _original_model = model_instance
    /\ InitNoCall
    /\ InitOthers

Init ==
    /\ model_instance \in Models
    /\ InitIdle

driver == <<pc, method, paramArg, perturbArg, solves, files>>

\* sens.setup_sensitivity(paramList)
Setup(paramList) ==
    LET r == setup_sensitivity(model_instance,
               paramList_on_instance(cloneModel, model_instance, paramList)) IN
    /\ pc = "idle"
    /\ model_instance' = r.m
    /\ result' = [op |-> "setup", err |-> r.err]
    /\ UNCHANGED <<perturbList, driver>>
    /\ KeepOriginal
    /\ UNCHANGED others

\* sens.perturb_parameters(perturbList)
Perturb(plist) ==
    LET r == perturb_parameters(model_instance, plist) IN
    /\ pc = "idle"
    /\ model_instance' = r.m
    /\ result' = [op |-> "perturb", err |-> r.err]
    /\ perturbList' = IF r.err = OK THEN plist ELSE perturbList
    /\ UNCHANGED driver
    /\ KeepOriginal
    /\ UNCHANGED others

SetupAny == \E paramList \in ParamLists : Setup(paramList)

PerturbAny == \E plist \in PerturbLists : Perturb(plist)

Next == SetupAny

Spec == Init /\ [][Next]_vars

(***************************************************************************)
(* The interface used by hand on a clone or on the model itself, while the *)
(* user goes on building the model: a fixed Var w is added to the user's   *)
(* model after the interface was constructed, and the lists name           *)
(* components the user's model has.                                        *)
(***************************************************************************)
\* instance.w = Var(initialize=8); instance.w.fix()
add_w(m) ==
    [m EXCEPT !.value = Put(@, U("w", 0), 8), !.fixed = Put(@, U("w", 0), TRUE)]

AddComponent ==
    /\ pc = "idle"
    /\ "w" \notin Components(_original_model)
    /\ _original_model' = add_w(_original_model)
    /\ model_instance' = IF cloneModel THEN model_instance
                         ELSE add_w(model_instance)
    /\ result' = [op |-> "add_component", err |-> OK]
    /\ UNCHANGED <<perturbList, driver, cloneModel, others>>

CloneParamLists == ListsOver({"p", "x", "w"}, MaxList)

SetupClone ==
    \E paramList \in CloneParamLists :
      /\ \A i \in 1..Len(paramList) : paramList[i] \in Components(_original_model)
      /\ Setup(paramList)

InitClone ==
    /\ model_instance \in
         {m \in Models : /\ \A o \in DOMAIN m.objActive : m.objActive[o]
                         /\ \A c \in DOMAIN m.conActive : m.conActive[c]
                         /\ m.fixed[U("x", 0)] /\ m.fixed[U("y", 1)]}
    /\ cloneModel \in BOOLEAN
    /\ _original_model = model_instance
    /\ InitNoCall
    /\ InitOthers

NextClone == SetupClone \/ AddComponent \/ PerturbAny

SpecClone == InitClone /\ [][NextClone]_vars

(***************************************************************************)
(* _add_sensitivity_suffixes called by hand on a model that already has    *)
(* components under some of the catalogue's names: declared by the user    *)
(* with a direction of their own, empty or holding an entry.               *)
(***************************************************************************)
PriorNames == {"dual", "sens_state_0", "DeltaP"}

PriorComponents ==
    {[direction |-> d, data |-> x] :
       d \in {"LOCAL", "EXPORT"},
       x \in {<<>>, [e \in {U("z", 0)} |-> 3]}}

SuffixModels ==
    {[m EXCEPT !.suffix = s] :
       m \in {mm \in Models : /\ \A o \in DOMAIN mm.objActive : mm.objActive[o]
                               /\ \A c \in DOMAIN mm.conActive : mm.conActive[c]
                               /\ \A e \in DOMAIN mm.fixed : ~mm.fixed[e]},
       s \in UNION {[S -> PriorComponents] : S \in SUBSET PriorNames}}

InitSuffix ==
    /\ model_instance \in SuffixModels
    /\ InitIdle

\* _add_sensitivity_suffixes(instance)
AddSuffixes ==
    /\ pc = "idle"
    /\ model_instance' = _add_sensitivity_suffixes(model_instance)
    /\ result' = [op |-> "suffixes", err |-> OK]
    /\ UNCHANGED <<perturbList, driver>>
    /\ KeepOriginal
    /\ UNCHANGED others

NextSuffix == AddSuffixes

SpecSuffix == InitSuffix /\ [][NextSuffix]_vars

(***************************************************************************)
(* An external solve between two calls: solver.solve(m) returns with new   *)
(* values of the variables that are not fixed.                             *)
(***************************************************************************)
SolveValues == {0}

ExternalSolve(m, nv) ==
    [m EXCEPT !.value = [e \in DOMAIN @ |->
                           IF e \in DOMAIN m.fixed /\ ~m.fixed[e] THEN nv
                           ELSE @[e]]]

Solve ==
    \E nv \in SolveValues :
      /\ pc = "idle"
      /\ model_instance' = ExternalSolve(model_instance, nv)
      /\ result' = [op |-> "solve", err |-> OK]
      /\ UNCHANGED <<perturbList, driver>>
      /\ KeepOriginal
      /\ UNCHANGED others

\* The interface used by hand: setup, solves and perturbations in any
\* order, on a model whose objectives and constraints are all active.
InitPerturb ==
    /\ model_instance \in
         {m \in Models : /\ \A o \in DOMAIN m.objActive : m.objActive[o]
                         /\ \A c \in DOMAIN m.conActive : m.conActive[c]
                         /\ m.fixed[U("x", 0)] /\ m.fixed[U("y", 1)]}
    /\ InitIdle

NextPerturb == SetupAny \/ PerturbAny \/ Solve

SpecPerturb == InitPerturb /\ [][NextPerturb]_vars

(***************************************************************************)
(* sensitivity_calculation(method, instance, paramList, perturbList), one  *)
(* action per statement group; pc names the next one, "raised" is the end  *)
(* of a run that an exception left, "returned" of one that returned m.     *)
(***************************************************************************)
Methods == {"sipopt", "kaug", "other"}

\* The files of the try block of lines 141-150, in the order of the moves.
Artifacts ==
    <<"dsdp_in_.in", "col_row.nl", "col_row.col", "col_row.row",
      "conorder.txt", "delta_p.out", "dot_out.out",
      "timings_dot_driver_dsdp.txt", "timings_k_aug_dsdp.txt">>

ArtifactSet == {Artifacts[i] : i \in 1..Len(Artifacts)}

\* What k_aug and dot_sens may have left in the working directory: nothing,
\* every file, or every file but one.
SolverOutputs ==
    {{}, ArtifactSet} \cup {ArtifactSet \ {Artifacts[i]} : i \in 1..Len(Artifacts)}

\* The working directory at the call: no ./dsdp, an empty one, or the one an
\* earlier run has filled.
InitialFiles ==
    {[cwd |-> {}, dir |-> FALSE, dsdp |-> {}],
     [cwd |-> {}, dir |-> TRUE, dsdp |-> {}],
     [cwd |-> {}, dir |-> TRUE, dsdp |-> ArtifactSet]}

\* The user's model of a run: everything fixed and active.
CalcModels ==
    {m \in Models : /\ \A o \in DOMAIN m.objActive : m.objActive[o]
                    /\ \A c \in DOMAIN m.conActive : m.conActive[c]
                    /\ \A e \in DOMAIN m.fixed : m.fixed[e] = (e # U("z", 0))}

InitCalc ==
    /\ model_instance \in CalcModels
    /\ cloneModel \in BOOLEAN
    /\ _original_model = model_instance
    /\ result = NoCall
    /\ perturbList = <<>>
    /\ pc = "setup"
    /\ method \in Methods
    /\ paramArg \in ParamLists
    /\ perturbArg \in PerturbLists
    /\ solves = <<>>
    /\ files \in InitialFiles
    /\ InitOthers

\* Mutant of CalcSetup: with 'sipopt' the run goes from setup straight to
\* the sensitivity solve.
CalcSetup_skip ==
    LET r == setup_sensitivity(model_instance,
               paramList_on_instance(cloneModel, model_instance, paramArg)) IN
    /\ pc = "setup"
    /\ model_instance' = r.m
    /\ result' = [op |-> "setup", err |-> r.err]
    /\ pc' = IF r.err # OK THEN "raised"
             ELSE IF method = "kaug" THEN "ipopt"
             ELSE IF method = "sipopt" THEN "final" ELSE "perturb"
    /\ UNCHANGED <<perturbList, method, paramArg, perturbArg, solves, files>>
    /\ KeepOriginal
    /\ UNCHANGED others

\* sens = SensitivityInterface(...); sens.setup_sensitivity(paramList)
CalcSetup ==
    LET r == setup_sensitivity(model_instance,
               paramList_on_instance(cloneModel, model_instance, paramArg)) IN
    /\ pc = "setup"
    /\ model_instance' = r.m
    /\ result' = [op |-> "setup", err |-> r.err]
    /\ pc' = IF r.err # OK THEN "raised"
             ELSE IF method = "kaug" THEN "ipopt" ELSE "perturb"
    /\ UNCHANGED <<perturbList, method, paramArg, perturbArg, solves, files>>
    /\ KeepOriginal
    /\ UNCHANGED others

\* ipopt.solve(m, tee=tee): new values, and the bound multipliers of the
\* free variable z in the IMPORT suffixes.
CalcIpopt ==
    \E nv \in SolveValues :
      LET m1 == ExternalSolve(model_instance, nv)
          z == U("z", 0)
      IN /\ pc = "ipopt"
         /\ model_instance' =
              [m1 EXCEPT !.suffix["ipopt_zL_out"].data = Put(@, z, 1),
                         !.suffix["ipopt_zU_out"].data = Put(@, z, 2)]
         /\ solves' = Append(solves, "ipopt")
         /\ pc' = "update"
         /\ UNCHANGED <<result, perturbList, method, paramArg, perturbArg, files>>
         /\ KeepOriginal
         /\ UNCHANGED others

\* Mutant of CalcUpdate: only the lower multipliers are copied.
CalcUpdate_zL ==
    /\ pc = "update"
    /\ model_instance' =
         [model_instance EXCEPT
            !.suffix["ipopt_zL_in"].data =
               Merge(@, model_instance.suffix["ipopt_zL_out"].data)]
    /\ pc' = "k_aug"
    /\ UNCHANGED <<result, perturbList, method, paramArg, perturbArg, solves, files>>
    /\ KeepOriginal
    /\ UNCHANGED others

\* m.ipopt_zL_in.update(m.ipopt_zL_out); m.ipopt_zU_in.update(m.ipopt_zU_out)
CalcUpdate ==
    /\ pc = "update"
    /\ model_instance' =
         [model_instance EXCEPT
            !.suffix["ipopt_zL_in"].data =
               Merge(@, model_instance.suffix["ipopt_zL_out"].data),
            !.suffix["ipopt_zU_in"].data =
               Merge(@, model_instance.suffix["ipopt_zU_out"].data)]
    /\ pc' = "k_aug"
    /\ UNCHANGED <<result, perturbList, method, paramArg, perturbArg, solves, files>>
    /\ KeepOriginal
    /\ UNCHANGED others

\* kaug.options['dsdp_mode'] = ""; kaug.solve(m, tee=tee)
CalcKaug ==
    \E nv \in SolveValues, out \in SolverOutputs :
      /\ pc = "k_aug"
      /\ model_instance' = ExternalSolve(model_instance, nv)
      /\ solves' = Append(solves, "k_aug")
      /\ files' = [files EXCEPT !.cwd = @ \cup out]
      /\ pc' = "write"
      /\ UNCHANGED <<result, perturbList, method, paramArg, perturbArg>>
      /\ KeepOriginal
      /\ UNCHANGED others

\* m.write('col_row.nl', ...)
CalcWrite ==
    /\ pc = "write"
    /\ files' = [files EXCEPT !.cwd = @ \cup {"col_row.nl"}]
    /\ pc' = "perturb"
    /\ UNCHANGED <<model_instance, result, perturbList, method, paramArg,
                   perturbArg, solves>>
    /\ KeepOriginal
    /\ UNCHANGED others

\* sens.perturb_parameters(perturbList)
CalcPerturb ==
    LET r == perturb_parameters(model_instance, perturbArg) IN
    /\ pc = "perturb"
    /\ model_instance' = r.m
    /\ result' = [op |-> "perturb", err |-> r.err]
    /\ perturbList' = IF r.err = OK THEN perturbArg ELSE perturbList
    /\ pc' = IF r.err # OK THEN "raised" ELSE "final"
    /\ UNCHANGED <<method, paramArg, perturbArg, solves, files>>
    /\ KeepOriginal
    /\ UNCHANGED others

\* if method == 'sipopt': ipopt_sens.solve(m, ...)
CalcIpoptSens ==
    \E nv \in SolveValues :
      /\ pc = "final" /\ method = "sipopt"
      /\ model_instance' = ExternalSolve(model_instance, nv)
      /\ solves' = Append(solves, "ipopt_sens")
      /\ pc' = "return"
      /\ UNCHANGED <<result, perturbList, method, paramArg, perturbArg, files>>
      /\ KeepOriginal
      /\ UNCHANGED others

\* elif method == 'kaug': dotsens.solve(m, tee=tee)
CalcDotSens ==
    \E nv \in SolveValues, out \in SolverOutputs :
      /\ pc = "final" /\ method = "kaug"
      /\ model_instance' = ExternalSolve(model_instance, nv)
      /\ solves' = Append(solves, "dot_sens")
      /\ files' = [files EXCEPT !.cwd = @ \cup out]
      /\ pc' = "makedirs"
      /\ UNCHANGED <<result, perturbList, method, paramArg, perturbArg>>
      /\ KeepOriginal
      /\ UNCHANGED others

\* Mutant of CalcMakedirs: FileExistsError is not caught.
CalcMakedirs_uncaught ==
    /\ pc = "makedirs"
    /\ files' = [files EXCEPT !.dir = TRUE]
    /\ pc' = IF files.dir THEN "raised" ELSE "move"
    /\ UNCHANGED <<model_instance, result, perturbList, method, paramArg,
                   perturbArg, solves>>
    /\ KeepOriginal
    /\ UNCHANGED others

\* try: os.makedirs("dsdp") except FileExistsError: pass
CalcMakedirs ==
    /\ pc = "makedirs"
    /\ files' = [files EXCEPT !.dir = TRUE]
    /\ pc' = "move"
    /\ UNCHANGED <<model_instance, result, perturbList, method, paramArg,
                   perturbArg, solves>>
    /\ KeepOriginal
    /\ UNCHANGED others

\* The moves of one try block: each file in turn into ./dsdp/; the first
\* move that raises OSError (no such file, or a file of that name already
\* in ./dsdp/) ends the block.
RECURSIVE MoveFrom(_, _)
MoveFrom(f, i) ==
    IF i > Len(Artifacts) THEN f
    ELSE IF Artifacts[i] \notin f.cwd \/ Artifacts[i] \in f.dsdp THEN f
    ELSE MoveFrom([f EXCEPT !.cwd = @ \ {Artifacts[i]},
                            !.dsdp = @ \cup {Artifacts[i]}], i + 1)

CalcMove ==
    /\ pc = "move"
    /\ files' = MoveFrom(files, 1)
    /\ pc' = "return"
    /\ UNCHANGED <<model_instance, result, perturbList, method, paramArg,
                   perturbArg, solves>>
    /\ KeepOriginal
    /\ UNCHANGED others

\* Mutant of CalcNoSolve: an unknown method is an error.
CalcNoSolve_raises ==
    /\ pc = "final" /\ method \notin {"sipopt", "kaug"}
    /\ pc' = "raised"
    /\ UNCHANGED <<model_instance, result, perturbList, method, paramArg,
                   perturbArg, solves, files>>
    /\ KeepOriginal
    /\ UNCHANGED others

\* Neither 'sipopt' nor 'kaug': no branch is taken.
CalcNoSolve ==
    /\ pc = "final" /\ method \notin {"sipopt", "kaug"}
    /\ pc' = "return"
    /\ UNCHANGED <<model_instance, result, perturbList, method, paramArg,
                   perturbArg, solves, files>>
    /\ KeepOriginal
    /\ UNCHANGED others

\* return m
CalcReturn ==
    /\ pc = "return"
    /\ pc' = "returned"
    /\ UNCHANGED <<model_instance, result, perturbList, method, paramArg,
                   perturbArg, solves, files>>
    /\ KeepOriginal
    /\ UNCHANGED others

NextCalc ==
    \/ CalcSetup \/ CalcIpopt \/ CalcUpdate \/ CalcKaug \/ CalcWrite
    \/ CalcPerturb \/ CalcIpoptSens \/ CalcDotSens \/ CalcMakedirs
    \/ CalcMove \/ CalcNoSolve \/ CalcReturn

SpecCalc == InitCalc /\ [][NextCalc]_vars

(***************************************************************************)
(* Vocabulary of the properties.                                           *)
(***************************************************************************)
Records(m) == m.block._sens_data_list

\* The block has performed expression substitution.
Substituted(b) == b.exists /\ b.flags["_has_replaced_expressions"]

\* The block was built completely, from fixed Vars only, and so has not
\* substituted.
Unsubstituted(b) ==
    /\ b.exists /\ b.has_paramConst /\ ~b.flags["_has_replaced_expressions"]
    /\ Len(b._sens_data_list) > 0

SetupSucceeded == result = [op |-> "setup", err |-> OK]

\* Record k of m comes from a designated Param.
FromParam(m, k) ==
    ctype(m.block._paramList[Records(m)[k].list_idx + 1]) = "Param"

IsRanged(con) ==
    ~ConData(con).equality /\ ConData(con).has_lower /\ ConData(con).has_upper

NEntries(con) == IF IsRanged(con) THEN 2 ELSE 1

\* Entries of the shadow list that precede those of the j-th constraint.
RECURSIVE Offset(_, _)
Offset(cons, j) ==
    IF j <= 1 THEN 0 ELSE Offset(cons, j - 1) + NEntries(cons[j - 1])

LeavesOf(e) == UNION {{e.args[a][i] : i \in 1..Len(e.args[a])} : a \in 1..Len(e.args)}

\* n is o with every designated Param element replaced by a variable paired
\* with it in the records of m, and nothing else changed.
Corr(m, o, n) ==
    /\ Len(n) = Len(o)
    /\ \A i \in 1..Len(o) :
         LET ks == {k \in 1..Len(Records(m)) :
                      FromParam(m, k) /\ Records(m)[k].param = o[i]}
         IN IF ks # {} THEN \E k \in ks : Records(m)[k].var = n[i]
            ELSE n[i] = o[i]

(***************************************************************************)
(* C1: a setup_sensitivity call on a working model whose block has already *)
(* performed expression substitution raises RuntimeError and rebuilds      *)
(* nothing, at every later call and for every list.                        *)
(***************************************************************************)
C1_RebuildRefused ==
    [][(Substituted(model_instance.block) /\ result'.op = "setup")
         => (result'.err = "RuntimeError" /\ model_instance' = model_instance)]_vars

C1_Witness ==
    /\ Substituted(model_instance.block)
    /\ result = [op |-> "setup", err |-> "RuntimeError"]

(***************************************************************************)
(* C2: a setup_sensitivity call on a working model whose complete block    *)
(* has not substituted does not raise the rebuild error: the old block is  *)
(* removed and the new block is built from the new list.                   *)
(***************************************************************************)
C2_RebuildUnsubstituted ==
    [][\A pl \in ParamLists :
         (Unsubstituted(model_instance.block) /\ Setup(pl))
           => /\ result'.err # "RuntimeError"
              /\ model_instance'.block.exists
              /\ model_instance'.block._paramList = pl]_vars

(***************************************************************************)
(* C3: when an unsubstituted block is torn down by a following setup call, *)
(* a variable designated in the first call and not in the second is fixed  *)
(* after the second call.                                                  *)
(***************************************************************************)
C3_TeardownRefixes ==
    [][\A pl \in ParamLists :
         (Unsubstituted(model_instance.block) /\ Setup(pl))
           => \A k \in 1..Len(Records(model_instance)) :
                LET v == Records(model_instance)[k].var IN
                (\A i \in 1..Len(pl) : pl[i] # v[2])
                  => model_instance'.fixed[v]]_vars

(***************************************************************************)
(* C4: every active ranged inequality adds exactly two entries to the      *)
(* shadow list, and for all values of the leaves both hold iff the ranged  *)
(* constraint with its parameters replaced holds.                          *)
(***************************************************************************)
C4_RangedSplit ==
    [][(result' = [op |-> "setup", err |-> OK]
        /\ Substituted(model_instance'.block))
         => LET cons == ActiveConstraints(model_instance)
                m2 == model_instance'
                list == m2.block.constList
                img(e) == dfs_postorder_stack(variableSubMap(m2), e)
            IN \A j \in 1..Len(cons) :
                 IsRanged(cons[j])
                   => LET d == ConData(cons[j])
                          orig == [rel |-> "<=",
                                   args |-> <<img(d.lower), img(d.body),
                                              img(d.upper)>>]
                          e1 == list[Offset(cons, j) + 1]
                          e2 == list[Offset(cons, j) + 2]
                          L == LeavesOf(orig) \cup LeavesOf(e1) \cup LeavesOf(e2)
                      IN /\ Len(list) = Offset(cons, Len(cons) + 1)
                         /\ \A rho \in [L -> 0..2] :
                              (Sat(e1, rho) /\ Sat(e2, rho)) <=> Sat(orig, rho)]_vars

(***************************************************************************)
(* C5: when setup rewrites, every active equality and one-sided inequality *)
(* yields exactly one entry of the shadow list, in traversal order, the    *)
(* list has #equalities + #one-sided + 2 * #ranged entries, and every      *)
(* active objective yields exactly one new objective of the block.         *)
(***************************************************************************)
C5_ShadowCount ==
    [][(result' = [op |-> "setup", err |-> OK]
        /\ Substituted(model_instance'.block))
         => LET cons == ActiveConstraints(model_instance)
                objs == ActiveObjectives(model_instance)
                m2 == model_instance'
                list == m2.block.constList
            IN /\ Len(list) = Offset(cons, Len(cons) + 1)
               /\ \A j \in 1..Len(cons) :
                    ~IsRanged(cons[j])
                      => LET e == list[Offset(cons, j) + 1]
                             o == ConExpr(cons[j])
                         IN /\ e.rel = o.rel
                            /\ Len(e.args) = Len(o.args)
                            /\ \A a \in 1..Len(o.args) :
                                 Corr(m2, o.args[a], e.args[a])
               /\ Len(m2.block.objs) = Len(objs)
               /\ \A j \in 1..Len(objs) : m2.block.objs[j].name[1] = objs[j]]_vars

C5_Witness ==
    /\ SetupSucceeded
    /\ Substituted(model_instance.block)
    /\ Len(model_instance.block.constList) = 5
    /\ Len(model_instance.block.objs) = 2

(***************************************************************************)
(* C6: in every shadow objective and shadow constraint each designated     *)
(* Param element is replaced by a variable paired with it and no other     *)
(* leaf is changed: no shadow expression names a designated Param element  *)
(* or a parameter created for a designated Var.                            *)
(***************************************************************************)
C6_OnlyParamsReplaced ==
    [][(result' = [op |-> "setup", err |-> OK]
        /\ Substituted(model_instance'.block))
         => LET cons == ActiveConstraints(model_instance)
                objs == ActiveObjectives(model_instance)
                m2 == model_instance'
                list == m2.block.constList
                params == {Records(m2)[k].param : k \in 1..Len(Records(m2))}
            IN /\ \A j \in 1..Len(objs) :
                    /\ Corr(m2, ObjExpr(objs[j]), m2.block.objs[j].expr)
                    /\ \A i \in 1..Len(m2.block.objs[j].expr) :
                         m2.block.objs[j].expr[i] \notin params
               /\ \A n \in 1..Len(list) : LeavesOf(list[n]) \cap params = {}
               /\ \A j \in 1..Len(cons) :
                    LET d == ConData(cons[j])
                        parts == IF IsRanged(cons[j])
                                 THEN {d.lower, d.body, d.upper}
                                 ELSE {}
                    IN \A n \in 1..NEntries(cons[j]) :
                         LET e == list[Offset(cons, j) + n] IN
                         \A a \in 1..Len(e.args) :
                           IF IsRanged(cons[j])
                           THEN \E o \in parts : Corr(m2, o, e.args[a])
                           ELSE Corr(m2, ConExpr(cons[j]).args[a], e.args[a])]_vars

C6_Witness ==
    /\ SetupSucceeded
    /\ Substituted(model_instance.block)
    /\ model_instance.block._paramList = <<"q", "x">>
    /\ Len(model_instance.block.constList) = 5

RunEnded == pc \in {"raised", "returned"}

\* A finished run of either method whose setup_sensitivity succeeded and
\* whose two lists differ in length.
LengthMismatchRun ==
    /\ RunEnded
    /\ method \in {"sipopt", "kaug"}
    /\ result.op # "setup"
    /\ Len(paramArg) # Len(perturbArg)

C8_MismatchBeforeAnySolve ==
    LengthMismatchRun
      => /\ pc = "raised"
         /\ result = [op |-> "perturb", err |-> "ValueError"]
         /\ solves = <<>>

\* C8 as amended: the run ends in ValueError; with 'sipopt' no solver has
\* been invoked before it, with 'kaug' the baseline ipopt solve and the
\* k_aug solve have, and dot_sens has not.
C8_MismatchFails ==
    LengthMismatchRun
      => /\ pc = "raised"
         /\ result = [op |-> "perturb", err |-> "ValueError"]
         /\ solves = IF method = "sipopt" THEN <<>> ELSE <<"ipopt", "k_aug">>

C8_Witness ==
    /\ LengthMismatchRun
    /\ method = "kaug"
    /\ paramArg = <<"p", "x">>
    /\ Len(perturbArg) = 1

(***************************************************************************)
(* C9: after perturb_parameters(perturbList) succeeds, for the record at   *)
(* position k with free entity v: sens_state_value_1[v] is the target t of *)
(* the record and DeltaP of the k-th pinning constraint is value(v) - t.   *)
(***************************************************************************)
PerturbSucceeded == result = [op |-> "perturb", err |-> OK]

\* The target of record k: perturbList[i][j] for an indexed record whose
\* entry can be indexed, else perturbList[i].
TargetOf(k) ==
    LET rec == Records(model_instance)[k]
        entry == perturbList[rec.list_idx + 1]
    IN IF rec.comp_idx # _NotAnIndex /\ entry.indexable
       THEN entry.d[rec.comp_idx] ELSE entry.v

C10_SubstituteValues ==
    SetupSucceeded
      => LET m == model_instance
             l == Records(m)
         IN \A k \in 1..Len(l) :
              LET comp == m.block._paramList[l[k].list_idx + 1]
                  orig == U(comp, l[k].comp_idx)
                  subst == IF FromParam(m, k) THEN l[k].var ELSE l[k].param
              IN /\ subst[1] = "b"
                 /\ subst[4] = l[k].comp_idx
                 /\ m.value[subst] = m.value[orig]
                 /\ {e[4] : e \in {x \in DOMAIN m.value :
                                     x[1] = "b" /\ x[2] = subst[2] /\ x[3] = subst[3]}}
                      = index_set(comp)
                 /\ \A i \in index_set(comp) :
                      \E k2 \in 1..Len(l) :
                        l[k2].list_idx = l[k].list_idx /\ l[k2].comp_idx = i

C10_Witness ==
    /\ SetupSucceeded
    /\ model_instance.block._paramList = <<"q", "y">>

(***************************************************************************)
(* C11: on a model with no sensitivity block, setup_sensitivity raises     *)
(* ValueError when a designated Param is not mutable or an element of a    *)
(* designated Var is not fixed, it stops at the first such entry of the    *)
(* list (the entries before it, and no other, have their substitutes and   *)
(* records), and it succeeds when the list has no such entry.              *)
(***************************************************************************)
\* The entry comp does not qualify on the model m.
Unqualified(m, comp) ==
    \/ ctype(comp) = "Param" /\ ~mutable(comp)
    \/ ctype(comp) = "Var" /\ \E k \in index_set(comp) : ~m.fixed[U(comp, k)]

C11_FirstInvalidEntryFails ==
    [][(~model_instance.block.exists /\ result'.op = "setup")
         => LET m == model_instance
                m2 == model_instance'
                pl == m2.block._paramList
                bad == {i \in 1..Len(pl) : Unqualified(m, pl[i])}
                l == Records(m2)
            IN IF bad = {}
               THEN result'.err = OK /\ m2.block.has_paramConst
               ELSE /\ result'.err = "ValueError"
                    /\ ~m2.block.has_paramConst
                    /\ Len(m2.block.comps) = Min(bad) - 1
                    /\ {l[k].list_idx + 1 : k \in 1..Len(l)} = 1..(Min(bad) - 1)
                    /\ m2.fixed = [e \in DOMAIN m2.fixed |->
                                     IF e \in DOMAIN m.fixed THEN m.fixed[e]
                                     ELSE m2.fixed[e]]]_vars

\* A list whose first entry qualifies and whose second does not.
C11_Witness ==
    /\ result = [op |-> "setup", err |-> "ValueError"]
    /\ model_instance.block._paramList = <<"q", "y">>
    /\ model_instance.fixed[U("y", 1)] /\ ~model_instance.fixed[U("y", 2)]
    /\ Len(model_instance.block.comps) = 1

(***************************************************************************)
(* C12: once setup_sensitivity has built the pinning list, it has exactly  *)
(* one equality per record and the one at 1-based position k is            *)
(* var_k - param_k == 0 (held as the pair var_k, param_k); later           *)
(* perturb_parameters calls and solves leave the records and the list as   *)
(* they are, and perturb_parameters writes DeltaP of the k-th record on    *)
(* the k-th pinning constraint.                                            *)
(***************************************************************************)
\* The pinning list of m pairs position k with record k.
Paired(m) ==
    LET l == Records(m)
        list == m.block.paramConst
    IN /\ Len(list) = Len(l)
       /\ \A k \in 1..Len(l) :
            list[k] = [rel |-> "==", args |-> <<<<l[k].var>>, <<l[k].param>>>>]

C12_PinningPairsRecords ==
    [][LET m == model_instance
           m2 == model_instance'
       IN /\ m2.block.has_paramConst => Paired(m2)
          /\ (m.block.has_paramConst /\ result'.op \in {"perturb", "solve"})
               => /\ Records(m2) = Records(m)
                  /\ m2.block.paramConst = m.block.paramConst
          /\ result' = [op |-> "perturb", err |-> OK]
               => LET l == Records(m2)
                      DeltaP == m2.suffix["DeltaP"].data
                  IN /\ DOMAIN DeltaP = {ParamConstRef(k) : k \in 1..Len(l)}
                     /\ \A k \in 1..Len(l) :
                          LET entry == perturbList'[l[k].list_idx + 1]
                              t == IF l[k].comp_idx # _NotAnIndex /\ entry.indexable
                                   THEN entry.d[l[k].comp_idx] ELSE entry.v
                          IN DeltaP[ParamConstRef(k)] = m2.value[l[k].var] - t]_vars

\* Two records of different components, perturbed after a solve.
C12_Witness ==
    /\ PerturbSucceeded
    /\ model_instance.block._paramList = <<"x", "p">>
    /\ Len(model_instance.block.paramConst) = 2
    /\ model_instance.suffix["DeltaP"].data[ParamConstRef(1)] = 0 - 7
    /\ model_instance.suffix["DeltaP"].data[ParamConstRef(2)] = 0 - 7

CtypeOf(m, e) ==
    IF e[1] = "m" THEN (IF e[2] = "z" THEN "Var" ELSE ctype(e[2]))
    ELSE LET n == CHOOSE n \in 1..Len(m.block.comps) :
                    m.block.comps[n].name = <<e[2], e[3]>>
         IN m.block.comps[n].ctype

MutableParam(m, e) ==
    /\ CtypeOf(m, e) = "Param"
    /\ e[1] = "m" => mutable(e[2])

C14_RecordSlots ==
    SetupSucceeded
      => LET m == model_instance
             l == Records(m)
             pl == m.block._paramList
         IN /\ \A k \in 1..Len(l) :
                 /\ l[k].var \in DOMAIN m.fixed
                 /\ CtypeOf(m, l[k].var) = "Var"
                 /\ ~m.fixed[l[k].var]
                 /\ l[k].param \in DOMAIN m.value
                 /\ l[k].param \notin DOMAIN m.fixed
                 /\ MutableParam(m, l[k].param)
                 /\ IF FromParam(m, k)
                    THEN l[k].var[1] = "b" /\ l[k].param[1] = "m"
                    ELSE l[k].var[1] = "m" /\ l[k].param[1] = "b"
            /\ \A i \in 1..Len(pl) :
                 ctype(pl[i]) = "Var"
                   => \A j \in index_set(pl[i]) : ~m.fixed[U(pl[i], j)]

\* A designated Param and a designated indexed Var.
C14_Witness ==
    /\ SetupSucceeded
    /\ model_instance.block._paramList = <<"p", "y">>
    /\ ~model_instance.fixed[U("y", 1)]
    /\ ~model_instance.fixed[U("y", 2)]

(***************************************************************************)
(* C15: after a successful setup_sensitivity, for the record at 1-based    *)
(* position k, sens_state_0 and sens_state_1 map the record's variable to  *)
(* k and sens_init_constr and dcdp map the k-th pinning constraint to k;   *)
(* when no entity is designated twice the stamped indices are 1..N, none   *)
(* repeated within a slot.                                                 *)
(***************************************************************************)
Slot(name) == model_instance.suffix[name].data

\* No two records of the working model share a variable.
NoVarTwice ==
    \A k, k2 \in 1..Len(Records(model_instance)) :
      Records(model_instance)[k].var = Records(model_instance)[k2].var => k = k2

\* The values of the slot f are exactly 1..n, each on one key.
Stamps1toN(f, n) ==
    /\ {f[x] : x \in DOMAIN f} = 1..n
    /\ Cardinality(DOMAIN f) = n

\* The pinning constraints are stamped with their positions.
ConStamps ==
    LET l == Records(model_instance) IN
    /\ DOMAIN Slot("sens_init_constr") = {ParamConstRef(k) : k \in 1..Len(l)}
    /\ DOMAIN Slot("dcdp") = {ParamConstRef(k) : k \in 1..Len(l)}
    /\ \A k \in 1..Len(l) :
         /\ Slot("sens_init_constr")[ParamConstRef(k)] = k
         /\ Slot("dcdp")[ParamConstRef(k)] = k

C15_StampedIndices ==
    SetupSucceeded
      => LET l == Records(model_instance) IN
         /\ ConStamps
         /\ \A k \in 1..Len(l) :
              /\ Slot("sens_state_0")[l[k].var] = k
              /\ Slot("sens_state_1")[l[k].var] = k
         /\ NoVarTwice
              => \A n \in {"sens_state_0", "sens_state_1",
                           "sens_init_constr", "dcdp"} :
                   Stamps1toN(Slot(n), Len(l))

\* C15 as amended: the variable of record k is mapped to the position of
\* the last record that holds this variable, which is k itself unless a
\* fixed Var is designated twice.
C15_StampedLastIndex ==
    SetupSucceeded
      => LET l == Records(model_instance)
             lastk(v) == CHOOSE k2 \in 1..Len(l) :
                           l[k2].var = v /\ \A k3 \in 1..Len(l) : l[k3].var = v => k3 <= k2
         IN /\ ConStamps
            /\ \A k \in 1..Len(l) :
                 /\ Slot("sens_state_0")[l[k].var] = lastk(l[k].var)
                 /\ Slot("sens_state_1")[l[k].var] = lastk(l[k].var)
                 /\ (\A k3 \in 1..Len(l) : l[k3].var = l[k].var => k3 = k)
                      => lastk(l[k].var) = k
            /\ Stamps1toN(Slot("sens_init_constr"), Len(l))
            /\ Stamps1toN(Slot("dcdp"), Len(l))
            /\ NoVarTwice
                 => /\ Stamps1toN(Slot("sens_state_0"), Len(l))
                    /\ Stamps1toN(Slot("sens_state_1"), Len(l))

\* A fixed Var designated twice: its two records share the variable.
C15_Witness ==
    /\ SetupSucceeded
    /\ model_instance.block._paramList = <<"x", "x">>
    /\ Slot("sens_state_0")[U("x", 0)] = 2
    /\ Slot("dcdp")[ParamConstRef(1)] = 1

(***************************************************************************)
(* C16: after _add_sensitivity_suffixes the 14 names of the catalogue are  *)
(* on the model, every component the model had under one of these names is *)
(* as it was (same direction, same entries), a name that was missing is a  *)
(* new empty suffix of the catalogue's direction, nothing else of the      *)
(* model changes, and a second call changes nothing.                       *)
(***************************************************************************)
C16_SuffixesIdempotent ==
    [][result'.op = "suffixes"
         => LET s == model_instance.suffix
                s2 == model_instance'.suffix
            IN /\ Cardinality(DOMAIN suffix_dict) = 14
               /\ DOMAIN s2 = (DOMAIN s) \cup (DOMAIN suffix_dict)
               /\ \A n \in DOMAIN s : s2[n] = s[n]
               /\ \A n \in (DOMAIN suffix_dict) \ (DOMAIN s) :
                    s2[n] = [direction |-> suffix_dict[n], data |-> <<>>]
               /\ model_instance' = [model_instance EXCEPT !.suffix = s2]
               /\ _add_sensitivity_suffixes(model_instance') = model_instance']_vars

\* The model had 'dual' with a direction of its own and an entry, and has
\* it still, beside the thirteen names that were added.
C16_Witness ==
    /\ result.op = "suffixes"
    /\ Cardinality(DOMAIN model_instance.suffix) = 14
    /\ model_instance.suffix["dual"] =
         [direction |-> "LOCAL", data |-> [e \in {U("z", 0)} |-> 3]]
    /\ model_instance.suffix["DeltaP"] = [direction |-> "EXPORT", data |-> <<>>]

(***************************************************************************)
(* C17: in a run of sensitivity_calculation with 'sipopt' or 'kaug',       *)
(* perturb_parameters is called on a model whose setup has completed, the  *)
(* final sensitivity solve (ipopt_sens, dot_sens) is invoked only after    *)
(* perturb_parameters has returned, it is the last solver invoked, and the *)
(* run then goes on to return the working model and never raises.          *)
(***************************************************************************)
FinalSolve == IF method = "sipopt" THEN "ipopt_sens" ELSE "dot_sens"

\* The positions of the final sensitivity solve among the solves so far.
FinalSolves == {i \in 1..Len(solves) : solves[i] = FinalSolve}

C17_PerturbBetweenSetupAndFinalSolve ==
    method \in {"sipopt", "kaug"}
      => /\ result.op = "perturb"
              => /\ model_instance.block.has_paramConst
                 /\ DOMAIN suffix_dict \subseteq DOMAIN model_instance.suffix
                 /\ Paired(model_instance)
         /\ (result.op = "perturb" /\ FinalSolves = {})
              => pc = IF result.err = OK THEN "final" ELSE "raised"
         /\ FinalSolves # {}
              => /\ PerturbSucceeded
                 /\ perturbList = perturbArg
                 /\ FinalSolves = {Len(solves)}
                 /\ pc \in {"makedirs", "move", "return", "returned"}
         /\ pc \in {"return", "returned"} => FinalSolves = {Len(solves)}
         /\ \A i \in 1..Len(solves) :
              solves[i] \in {"ipopt_sens", "dot_sens"} => solves[i] = FinalSolve

\* A finished 'kaug' run: three solves, the last of them dot_sens, with the
\* perturbation written before it.
C17_Witness ==
    /\ pc = "returned"
    /\ method = "kaug"
    /\ solves = <<"ipopt", "k_aug", "dot_sens">>
    /\ PerturbSucceeded
    /\ Len(Records(model_instance)) = 3
    /\ Cardinality(DOMAIN model_instance.suffix["DeltaP"].data) = 3

(***************************************************************************)
(* C18: with 'kaug' the run performs, in this order and before the         *)
(* perturbation, one ipopt solve, the copy of every ipopt_zL_out and       *)
(* ipopt_zU_out entry into ipopt_zL_in and ipopt_zU_in, one k_aug solve    *)
(* and the write of col_row.nl; with 'sipopt' none of these happens and    *)
(* ipopt_sens is the only solver of the run.                               *)
(***************************************************************************)
\* Every entry of the two IMPORT multiplier slots is in the EXPORT ones.
MultipliersCopied ==
    LET s == model_instance.suffix IN
    /\ DOMAIN s["ipopt_zL_out"].data # {} /\ DOMAIN s["ipopt_zU_out"].data # {}
    /\ \A e \in DOMAIN s["ipopt_zL_out"].data :
         /\ e \in DOMAIN s["ipopt_zL_in"].data
         /\ s["ipopt_zL_in"].data[e] = s["ipopt_zL_out"].data[e]
    /\ \A e \in DOMAIN s["ipopt_zU_out"].data :
         /\ e \in DOMAIN s["ipopt_zU_in"].data
         /\ s["ipopt_zU_in"].data[e] = s["ipopt_zU_out"].data[e]

C18_KaugBaselineSteps ==
    /\ method = "kaug"
         => /\ solves \in {<<>>, <<"ipopt">>, <<"ipopt", "k_aug">>,
                           <<"ipopt", "k_aug", "dot_sens">>}
            /\ solves = <<"ipopt">> /\ pc # "update" => MultipliersCopied
            /\ Len(solves) >= 2 => MultipliersCopied
            /\ (Len(solves) >= 2 /\ pc # "write")
                 => "col_row.nl" \in files.cwd \cup files.dsdp
            /\ result.op = "perturb"
                 => /\ Len(solves) >= 2
                    /\ "col_row.nl" \in files.cwd \cup files.dsdp
            /\ pc = "perturb"
                 => /\ solves = <<"ipopt", "k_aug">>
                    /\ "col_row.nl" \in files.cwd
                    /\ DOMAIN model_instance.suffix["sens_state_value_1"].data = {}
    /\ method = "sipopt"
         => /\ solves \in {<<>>, <<"ipopt_sens">>}
            /\ pc = "returned" => solves = <<"ipopt_sens">>
            /\ files.cwd = {}
            /\ SetupSucceeded \/ result.op = "perturb"
                 => /\ DOMAIN model_instance.suffix["ipopt_zL_in"].data = {}
                    /\ DOMAIN model_instance.suffix["ipopt_zU_in"].data = {}

\* A 'kaug' run about to perturb, k_aug having left no file of its own.
C18_Witness ==
    /\ method = "kaug"
    /\ pc = "perturb"
    /\ solves = <<"ipopt", "k_aug">>
    /\ files.cwd = {"col_row.nl"}
    /\ model_instance.suffix["ipopt_zU_in"].data[U("z", 0)] = 2

(***************************************************************************)
(* C19: with 'kaug', once dot_sens has returned the run does not raise: it *)
(* goes on to return the working model whichever of the nine files are     *)
(* missing from the working directory and whether or not ./dsdp exists.    *)
(***************************************************************************)
C19_ReturnsDespiteMissingArtifacts ==
    (method = "kaug" /\ FinalSolves # {})
      => /\ pc \in {"makedirs", "move", "return", "returned"}
         /\ pc # "returned" => ENABLED NextCalc
         /\ pc \in {"move", "return", "returned"} => files.dir

\* A finished run in a directory where ./dsdp existed and was empty, a
\* file in the middle of the list missing.
C19_Witness ==
    /\ pc = "returned"
    /\ method = "kaug"
    /\ "conorder.txt" \notin files.cwd \cup files.dsdp
    /\ "dsdp_in_.in" \in files.dsdp
    /\ "delta_p.out" \in files.cwd

(***************************************************************************)
(* C20: with 'kaug', every one of the nine files that is in the working    *)
(* directory after the dot_sens solve is, after the moves, in ./dsdp/ and  *)
(* no longer in the working directory, whichever other files are missing.  *)
(***************************************************************************)
C20_PresentArtifactsMoved ==
    [][(pc = "move" /\ pc' = "return")
         => \A f \in files.cwd \cap ArtifactSet :
              f \in files'.dsdp /\ f \notin files'.cwd]_vars

(***************************************************************************)
(* C23: after a successful setup_sensitivity that designates at least one  *)
(* Param, every objective and constraint of the user is inactive, those    *)
(* that name no designated parameter included; the active objectives are   *)
(* the objectives of the block, one per objective that was active, and the *)
(* active constraints are the entries of the shadow list, one or two per   *)
(* constraint that was active, and of the pinning list, one per record:    *)
(* no shadow or pinning entry is cloned again or deactivated.              *)
(***************************************************************************)
\* The active constraint data of the model m in traversal order: the
\* user's, then the block's shadow list and pinning list, whose entries
\* nothing deactivates.
ActiveConstraintRefs(m) ==
    {Ref("m", c, 0, 0) : c \in {x \in DOMAIN m.conActive : m.conActive[x]}}
    \cup {Ref("b", "constList", 0, k) : k \in 1..Len(m.block.constList)}
    \cup {ParamConstRef(k) : k \in 1..Len(m.block.paramConst)}

ActiveObjectiveRefs(m) ==
    {<<"m", o, 0>> : o \in {x \in DOMAIN m.objActive : m.objActive[x]}}
    \cup {<<"b", m.block.objs[j].name[1], m.block.objs[j].name[2]>> :
            j \in 1..Len(m.block.objs)}

C23_OnlyShadowsActive ==
    [][(result' = [op |-> "setup", err |-> OK]
        /\ \E i \in 1..Len(model_instance'.block._paramList) :
             ctype(model_instance'.block._paramList[i]) = "Param")
         => LET m == model_instance
                m2 == model_instance'
                cons == ActiveConstraints(m)
                objs == ActiveObjectives(m)
            IN /\ \A c \in DOMAIN m2.conActive : ~m2.conActive[c]
               /\ \A o \in DOMAIN m2.objActive : ~m2.objActive[o]
               /\ m2.block.has_constList /\ m2.block.has_paramConst
               /\ Len(m2.block.constList) = Offset(cons, Len(cons) + 1)
               /\ Len(m2.block.paramConst) = Len(Records(m2))
               /\ Len(m2.block.objs) = Len(objs)
               /\ ActiveConstraintRefs(m2) =
                    {Ref("b", "constList", 0, k) : k \in 1..Offset(cons, Len(cons) + 1)}
                    \cup {ParamConstRef(k) : k \in 1..Len(Records(m2))}
               /\ Cardinality(ActiveObjectiveRefs(m2)) = Len(objs)
               /\ \A r \in ActiveObjectiveRefs(m2) : r[1] = "b"]_vars

\* Only q is designated: obj and c_ub name no element of q and are
\* inactive none the less.
C23_Witness ==
    /\ SetupSucceeded
    /\ model_instance.block._paramList = <<"q">>
    /\ ~model_instance.conActive["c_ub"]
    /\ ~model_instance.objActive["obj"]
    /\ Len(model_instance.block.constList) = 5
    /\ Len(model_instance.block.objs) = 2

(***************************************************************************)
(* C27: a setup_sensitivity call that ends in ValueError leaves the        *)
(* working model exactly as it was before the call (no block, no           *)
(* substitute, no flag changed), and a setup_sensitivity call on a model   *)
(* whose only earlier calls failed validation does not raise RuntimeError. *)
(***************************************************************************)
C27_FailedSetupLeavesModel ==
    [][/\ result' = [op |-> "setup", err |-> "ValueError"]
            => model_instance' = model_instance
       /\ (result = [op |-> "setup", err |-> "ValueError"] /\ result'.op = "setup")
            => result'.err # "RuntimeError"]_vars

(***************************************************************************)
(* C28: perturb_parameters changes nothing of the model but the entries of *)
(* sens_state_value_1 and DeltaP; a call that returns leaves in these two  *)
(* slots what the same call leaves on a model whose two slots are empty,   *)
(* whatever earlier calls wrote (the last call wins); a call that fails    *)
(* the length check changes nothing at all.                                *)
(***************************************************************************)
\* The model m with the two slots perturb_parameters writes emptied.
Unperturbed(m) ==
    IF "DeltaP" \in DOMAIN m.suffix /\ "sens_state_value_1" \in DOMAIN m.suffix
    THEN [m EXCEPT !.suffix["sens_state_value_1"].data = <<>>,
                   !.suffix["DeltaP"].data = <<>>]
    ELSE m

C28_PerturbFrameLastWins ==
    [][result'.op = "perturb"
         => LET m == model_instance
                m2 == model_instance'
            IN /\ Unperturbed(m2) = Unperturbed(m)
               /\ result'.err = "ValueError" => m2 = m
               /\ result'.err = OK
                    => /\ m2 = perturb_parameters(Unperturbed(m), perturbList').m
                       /\ DOMAIN m2.suffix["sens_state_value_1"].data =
                            {Records(m2)[k].var : k \in 1..Len(Records(m2))}
                       /\ DOMAIN m2.suffix["DeltaP"].data =
                            {ParamConstRef(k) : k \in 1..Len(Records(m2))}]_vars

\* A call that returned with values other than those an earlier call may
\* have written for the same record.
C28_Witness ==
    /\ PerturbSucceeded
    /\ model_instance.block._paramList = <<"q">>
    /\ perturbList = <<Scalar(7)>>
    /\ model_instance.suffix["sens_state_value_1"].data[Ref("b", "q", 0, 2)] = 7
    /\ model_instance.suffix["DeltaP"].data[ParamConstRef(2)] = 2 - 7

(***************************************************************************)
(* C29: a run of sensitivity_calculation with a method other than 'sipopt' *)
(* and 'kaug' runs setup_sensitivity and then perturb_parameters, invokes  *)
(* no solver, leaves the directory and its files as they are, and returns  *)
(* the working model: it raises only what the two calls raise.             *)
(***************************************************************************)
C29_UnknownMethodNoSolve ==
    [][method \notin {"sipopt", "kaug"}
         => /\ files' = files
            /\ solves' = <<>>
            /\ pc' \in {"perturb", "final", "return", "returned", "raised"}
            /\ pc' = "perturb" => result' = [op |-> "setup", err |-> OK]
            /\ pc' \in {"final", "return", "returned"}
                 => /\ result' = [op |-> "perturb", err |-> OK]
                    /\ perturbList' = perturbArg
                    /\ model_instance'.block.has_paramConst
                    /\ DOMAIN model_instance'.suffix["DeltaP"].data =
                         {ParamConstRef(k) : k \in 1..Len(Records(model_instance'))}
            /\ pc' = "raised" => (pc \in {"setup", "perturb"} /\ result'.err # OK)
            /\ pc' = "returned" => model_instance' = model_instance]_vars

\* A returned run of an unknown method in a directory with a filled ./dsdp.
C29_Witness ==
    /\ pc = "returned"
    /\ method = "other"
    /\ paramArg = <<"p", "y">>
    /\ PerturbSucceeded
    /\ files.dsdp = ArtifactSet

(***************************************************************************)
(* C21: on a clone, setup_sensitivity uses for every designated reference  *)
(* the component of the same path in the clone, and every entity of every  *)
(* record is an entity of the working model; on the model itself the       *)
(* references are used unchanged; and when a path does not exist in the    *)
(* working model the call fails before the block is attached or any        *)
(* substitute is created, so that the working model is as it was.          *)
(***************************************************************************)
C21_ReferencesResolved ==
    [][\A pl \in CloneParamLists :
         (/\ ~model_instance.block.exists
          /\ \A i \in 1..Len(pl) : pl[i] \in Components(_original_model)
          /\ Setup(pl))
           => LET m == model_instance
                  m2 == model_instance'
                  l == Records(m2)
              IN IF \A i \in 1..Len(pl) : pl[i] \in Components(m)
                 THEN /\ m2.block._paramList = pl
                      /\ \A k \in 1..Len(l) :
                           {l[k].var, l[k].param} \subseteq DOMAIN m2.value
                 ELSE /\ result'.err # OK
                      /\ m2 = m]_vars

add_named(m) ==
    LET named == {U("constList", 0), U("paramConst", 0)} IN
    [m EXCEPT
       !.value = [e \in (DOMAIN @) \cup named |->
                    IF e = U("constList", 0) THEN 12
                    ELSE IF e = U("paramConst", 0) THEN 13 ELSE @[e]],
       !.fixed = [e \in (DOMAIN @) \cup named |->
                    IF e \in named THEN TRUE ELSE @[e]]]

NameLists == ListsOver({"p", "x", "constList", "paramConst"}, MaxList)

SetupNames == \E paramList \in NameLists : Setup(paramList)

InitNames ==
    /\ model_instance \in
         {add_named(m) : m \in {n \in Models : n.fixed[U("y", 1)] /\ n.fixed[U("y", 2)]}}
    /\ InitIdle

NextNames == SetupNames

SpecNames == InitNames /\ [][NextNames]_vars

\* The substitute a record belongs to: the block's side of the pair.
Substitute(rec) == IF rec.var[1] = "b" THEN rec.var ELSE rec.param

\* Whether the block declares a component of that name and type.
Declared(block, name, kinds) ==
    \E i \in 1..Len(block.comps) :
       block.comps[i].name = name /\ block.comps[i].ctype \in kinds

(***************************************************************************)
(* C22: whatever the local names of the designated components, after a     *)
(* setup_sensitivity call the names of the block's components are pairwise *)
(* distinct and nothing the call added was displaced: the substitute of    *)
(* every record and every shadow objective is still a component of the     *)
(* block, and both constraint lists are declared where they were asked.    *)
(***************************************************************************)
C22_NoNameCollision ==
    (result.op = "setup" /\ model_instance.block.exists)
      => LET b == model_instance.block
             l == b._sens_data_list
         IN /\ \A i, j \in 1..Len(b.comps) :
                  b.comps[i].name = b.comps[j].name => i = j
            /\ \A k \in 1..Len(l) :
                  Declared(b, <<Substitute(l[k])[2], Substitute(l[k])[3]>>,
                           {"Var", "Param"})
            /\ \A k \in 1..Len(b.objs) :
                  Declared(b, b.objs[k].name, {"Objective"})
            /\ b.has_constList => Declared(b, <<"constList", 0>>, {"ConstraintList"})
            /\ b.has_paramConst => Declared(b, <<"paramConst", 0>>, {"ConstraintList"})

(***************************************************************************)
(* idaes/ui/report.py: the generators over the variables of a block.  A    *)
(* call is run to its end (list(...)); its result is what it yielded, in   *)
(* order, and the exception that ended it, if any.                         *)
(***************************************************************************)
\* blk.component_data_objects(Var): the elements of the block's variables,
\* in declaration order.
component_data_objects_Var(blk) ==
    LET order == <<U("x", 0), U("y", 1), U("y", 2), U("z", 0)>>
        Has(e) == e \in DOMAIN blk.fixed
    IN SelectSeq(order, Has)

\* for o in ...: if o.fixed: yield o
RECURSIVE fixed_variables_loop(_, _, _)
fixed_variables_loop(blk, os, out) ==
    IF os = <<>> THEN [out |-> out, err |-> OK]
    ELSE fixed_variables_loop(blk, Tail(os),
            IF blk.fixed[Head(os)] THEN Append(out, Head(os)) ELSE out)

fixed_variables(blk) ==
    fixed_variables_loop(blk, component_data_objects_Var(blk), <<>>)

\* for o in ...: if not o.fixed: yield item  -- the module has no name
\* 'item', so reaching the yield raises NameError.
RECURSIVE unfixed_variables_loop(_, _, _)
unfixed_variables_loop(blk, os, out) ==
    IF os = <<>> THEN [out |-> out, err |-> OK]
    ELSE IF ~blk.fixed[Head(os)] THEN [out |-> out, err |-> "NameError"]
    ELSE unfixed_variables_loop(blk, Tail(os), out)

unfixed_variables(blk) ==
    unfixed_variables_loop(blk, component_data_objects_Var(blk), <<>>)

\* for o in ...: if not o.fixed: yield o
RECURSIVE free_variables_loop(_, _, _)
free_variables_loop(blk, os, out) ==
    IF os = <<>> THEN [out |-> out, err |-> OK]
    ELSE free_variables_loop(blk, Tail(os),
            IF ~blk.fixed[Head(os)] THEN Append(out, Head(os)) ELSE out)

free_variables(blk) ==
    free_variables_loop(blk, component_data_objects_Var(blk), <<>>)

\* The blocks reported on: the user's models, with z free or fixed.
ReportModels ==
    Models \cup {[m EXCEPT !.fixed[U("z", 0)] = TRUE] : m \in Models}

InitReport ==
    /\ model_instance \in ReportModels
    /\ InitIdle

Report(op, r) ==
    /\ pc = "idle"
    /\ result' = [op |-> op, err |-> r.err, out |-> r.out]
    /\ UNCHANGED <<model_instance, perturbList, driver>>
    /\ KeepOriginal
    /\ UNCHANGED others

FixedVariables == Report("fixed_variables", fixed_variables(model_instance))

UnfixedVariables == Report("unfixed_variables", unfixed_variables(model_instance))

FreeVariables == Report("free_variables", free_variables(model_instance))

NextReport == FixedVariables \/ UnfixedVariables \/ FreeVariables

SpecReport == InitReport /\ [][NextReport]_vars

(***************************************************************************)
(* C25: on every block unfixed_variables and free_variables run to their   *)
(* end and yield the same sequence: the variables whose fixed flag is      *)
(* false, in the block's order, which is what fixed_variables leaves out.  *)
(***************************************************************************)
C25_FreeEqualsUnfixed ==
    result.op \in {"unfixed_variables", "free_variables"}
      => LET vs == component_data_objects_Var(model_instance)
             Free(e) == ~model_instance.fixed[e]
             fx == fixed_variables(model_instance).out
             Left(e) == \A i \in 1..Len(fx) : fx[i] # e
         IN /\ result.err = OK
            /\ result.out = SelectSeq(vs, Free)
            /\ result.out = SelectSeq(vs, Left)

(***************************************************************************)
(* The bubble and dew builders, each called once on a state block that has *)
(* none of their constraints yet.                                          *)
(***************************************************************************)
sensState ==
    <<model_instance, perturbList, driver, _original_model, cloneModel>>

InitBubble ==
    /\ model_instance = CHOOSE m \in CalcModels : TRUE
    /\ cloneModel = TRUE
    /\ _original_model = model_instance
    /\ InitNoCall
    /\ stateBlock \in StateBlocks
    /\ serializer = FlowsheetSerializer

\* cls.op(b)
Builder(cls, op) ==
    LET r == Build(cls, op, stateBlock) IN
    /\ result = NoCall
    /\ stateBlock' = r.b
    /\ result' = [op |-> op, cls |-> cls, err |-> r.err]
    /\ UNCHANGED <<sensState, serializer>>

BuildAny == \E cls \in BubbleDewClasses, op \in BubbleDewMethods : Builder(cls, op)

NextBubble == BuildAny

SpecBubble == InitBubble /\ [][NextBubble]_vars

\* Whether constructing the first constraint of cls.op on b ends in
\* AttributeError.
FirstRaisesAttributeError(cls, op, b) ==
    \/ "_pe_pairs" \notin b.attrs
    \/ Construct(cls, op, b, TRUE, b.pairs) = "AttributeError"

(***************************************************************************)
(* C24: in each of the eight builders, when constructing the first         *)
(* constraint raises AttributeError, the block is left without the first   *)
(* constraint and without the second one, and the caller gets the          *)
(* AttributeError.                                                         *)
(***************************************************************************)
C24_CleanupOnAttributeError ==
    [][\A cls \in BubbleDewClasses, op \in BubbleDewMethods :
         (Builder(cls, op) /\ FirstRaisesAttributeError(cls, op, stateBlock))
           => /\ \A i \in 1..Len(stateBlock'.comps) :
                    stateBlock'.comps[i] \notin {FirstConstraint[op], SecondConstraint[op]}
              /\ result'.err = "AttributeError"]_vars

\* A rule that raised at the second pair, after the first pair was skipped:
\* temperature_bubble of IdealBubbleDew on a block without 'pressure'.
C24_Witness ==
    /\ result.op = "temperature_bubble"
    /\ result.cls = "IdealBubbleDew"
    /\ result.err = "AttributeError"
    /\ stateBlock.pairs = <<<<"Sol", "Liq">>, <<"Liq", "Vap">>>>
    /\ "pressure" \notin stateBlock.attrs
    /\ "_pe_pairs" \in stateBlock.attrs
    /\ stateBlock.comps = <<>>

(***************************************************************************)
(* One FlowsheetSerializer instance, used for one flowsheet after another. *)
(***************************************************************************)
InitSerial ==
    /\ model_instance = CHOOSE m \in CalcModels : TRUE
    /\ cloneModel = TRUE
    /\ _original_model = model_instance
    /\ InitNoCall
    /\ stateBlock = NoStateBlock
    /\ serializer = FlowsheetSerializer

\* serializer.serialize(flowsheet, name)
Serialize(flowsheet, name) ==
    LET s == serialize(serializer, flowsheet, name) IN
    /\ serializer' = s
    /\ result' = [op |-> "serialize", err |-> OK, flowsheet |-> flowsheet,
                  name |-> name, out |-> s.out_json]
    /\ UNCHANGED <<sensState, stateBlock>>

SerializeAny ==
    \E flowsheet \in Flowsheets, name \in FlowsheetNames : Serialize(flowsheet, name)

NextSerial == SerializeAny

SpecSerial == InitSerial /\ [][NextSerial]_vars

(***************************************************************************)
(* C30: the dict a serialize call returns is the dict a fresh serializer   *)
(* returns for the same flowsheet and name, whatever the instance has      *)
(* serialized before.                                                      *)
(***************************************************************************)
C30_SerializeIgnoresHistory ==
    result.op = "serialize"
      => result.out = serialize(FlowsheetSerializer, result.flowsheet, result.name).out_json

====
